---- MODULE Spec2Model ----
(***************************************************************************)
(* Bharatam AI: the eligibility engine (app/services/eligibility.py), the  *)
(* conversation engine (app/services/conversation.py) and the send-message *)
(* handler (app/api/conversation.py) as state machines.                     *)
(*                                                                         *)
(* Optional values: Python None is the empty tuple, a present value v is   *)
(* the one-element tuple <<v>>.                                            *)
(***************************************************************************)
EXTENDS Integers, Sequences, FiniteSets, TLC

VARIABLES
    pc,            \* position of the eligibility driver: "call_..." | "checked" | "determined"
    el_profile,    \* UserProfile passed to the eligibility engine
    el_scheme,     \* Scheme passed to check_single_scheme
    el_schemes,    \* list of Scheme passed to determine_eligibility
    el_result,     \* EligibilityResult returned by check_single_scheme
    el_results,    \* list of EligibilityResult returned by determine_eligibility
    sessions,      \* ConversationEngine._sessions: session id -> ConversationState
    now,           \* datetime.now(), in minutes
    api_schemes,   \* schemes: the catalog the API module loads at startup
    ai_enabled,    \* AIAssistant.enabled
    ret,           \* the last call: its name, its arguments and what it returned
    opening,       \* TRUE while get_next_question is the only call made on the session
    n_updates,     \* calls made so far that write to a session
    n_turns,       \* send_message calls made so far
    issued,        \* the session ids uuid4 has handed out
    turns,         \* the requests or calls in flight: where each stands
    loop,          \* the request the event loop is running, 0 when it is free
    kbs,           \* the KnowledgeBase instances: entry list and vector index
    disk,          \* the two files at index_path
    kb_ret         \* the last call on a KnowledgeBase and what it returned

elvars == <<pc, el_profile, el_scheme, el_schemes, el_result, el_results>>
kbvars == <<kbs, disk, kb_ret>>
cvvars == <<sessions, now, api_schemes, ai_enabled, ret, opening, n_updates, n_turns, issued,
          turns, loop, kbvars>>
vars == <<pc, el_profile, el_scheme, el_schemes, el_result, el_results,
          sessions, now, api_schemes, ai_enabled, ret, opening, n_updates, n_turns, issued,
          turns, loop, kbs, disk, kb_ret>>

None == <<>>
Some(v) == <<v>>
Val(o) == o[1]

(***************************************************************************)
(* Data model                                                              *)
(***************************************************************************)
\* UserProfile(): every field None
UserProfile ==
    [age |-> None, state |-> None, education_level |-> None, income_range |-> None,
     category |-> None, occupation |-> None, gender |-> None]

\* EligibilityCriteria(): every constraint None
EligibilityCriteria ==
    [min_age |-> None, max_age |-> None, states |-> None, education_levels |-> None,
     income_max |-> None, categories |-> None, gender |-> None, occupations |-> None]

Scheme(id, eligibility) == [id |-> id, eligibility |-> eligibility]

\* float('inf') and the finite ceilings, as comparable records
Inf == [inf |-> TRUE, v |-> 0]
Fin(n) == [inf |-> FALSE, v |-> n]

INCOME_RANGES ==
    [b \in {"below_1lakh", "1-3lakh", "3-5lakh", "5-8lakh", "above_8lakh"} |->
        CASE b = "below_1lakh" -> Fin(100000)
          [] b = "1-3lakh"     -> Fin(300000)
          [] b = "3-5lakh"     -> Fin(500000)
          [] b = "5-8lakh"     -> Fin(800000)
          [] b = "above_8lakh" -> Inf]

\* INCOME_RANGES.get(label, float('inf'))
INCOME_RANGES_get(label) ==
    IF label \in DOMAIN INCOME_RANGES THEN INCOME_RANGES[label] ELSE Inf

\* mutant: the comparison made strict the other way (>=)
IncomeExceeds_or_equal(user_income, income_max) ==
    IF user_income.inf THEN TRUE ELSE user_income.v >= income_max

\* user_income > eligibility.income_max
IncomeExceeds(user_income, income_max) ==
    IF user_income.inf THEN TRUE ELSE user_income.v > income_max

\* one appended description: the attribute family and the message template
Crit(family, kind) == [family |-> family, kind |-> kind]

(***************************************************************************)
(* EligibilityEngine.check_single_scheme, one block per attribute family.  *)
(* Each block yields what it appends to matching_criteria and to           *)
(* missing_criteria and whether it leaves is_eligible alone.               *)
(***************************************************************************)
Block(matching, missing, ok) == [matching |-> matching, missing |-> missing, ok |-> ok]
Skip == Block(<<>>, <<>>, TRUE)

check_age(p, e) ==
    IF e.min_age # None \/ e.max_age # None
    THEN IF p.age = None
         THEN Block(<<>>, <<Crit("age", "required")>>, FALSE)
         ELSE LET below == e.min_age # None /\ Val(p.age) < Val(e.min_age)
                  above == e.max_age # None /\ Val(p.age) > Val(e.max_age)
                  age_match == ~below /\ ~above
              IN Block(IF age_match THEN <<Crit("age", "within_range")>> ELSE <<>>,
                       (IF below THEN <<Crit("age", "minimum")>> ELSE <<>>)
                         \o (IF above THEN <<Crit("age", "maximum")>> ELSE <<>>),
                       age_match)
    ELSE Skip

\* mutant: a profile without region passes a region constraint
check_state_unset_passes(p, e) ==
    IF e.states # None /\ p.state # None
    THEN IF Val(p.state) \notin Val(e.states)
         THEN Block(<<>>, <<Crit("state", "only_in")>>, FALSE)
         ELSE Block(<<Crit("state", "matches")>>, <<>>, TRUE)
    ELSE Skip

check_state(p, e) ==
    IF e.states # None
    THEN IF p.state = None THEN Block(<<>>, <<Crit("state", "required")>>, FALSE)
         ELSE IF Val(p.state) \notin Val(e.states)
              THEN Block(<<>>, <<Crit("state", "only_in")>>, FALSE)
              ELSE Block(<<Crit("state", "matches")>>, <<>>, TRUE)
    ELSE Skip

check_education(p, e) ==
    IF e.education_levels # None
    THEN IF p.education_level = None
         THEN Block(<<>>, <<Crit("education", "required")>>, FALSE)
         ELSE IF Val(p.education_level) \notin Val(e.education_levels)
              THEN Block(<<>>, <<Crit("education", "only_for")>>, FALSE)
              ELSE Block(<<Crit("education", "matches")>>, <<>>, TRUE)
    ELSE Skip

check_income(p, e) ==
    IF e.income_max # None
    THEN IF p.income_range = None
         THEN Block(<<>>, <<Crit("income", "required")>>, FALSE)
         ELSE LET user_income == INCOME_RANGES_get(Val(p.income_range))
              IN IF IncomeExceeds(user_income, Val(e.income_max))
                 THEN Block(<<>>, <<Crit("income", "maximum")>>, FALSE)
                 ELSE Block(<<Crit("income", "within_limit")>>, <<>>, TRUE)
    ELSE Skip

check_category(p, e) ==
    IF e.categories # None
    THEN IF p.category = None THEN Block(<<>>, <<Crit("category", "required")>>, FALSE)
         ELSE IF Val(p.category) \notin Val(e.categories)
              THEN Block(<<>>, <<Crit("category", "only_for")>>, FALSE)
              ELSE Block(<<Crit("category", "matches")>>, <<>>, TRUE)
    ELSE Skip

\* mutant: an unset gender passes a gender constraint
check_gender_unset_passes(p, e) ==
    IF e.gender # None /\ p.gender # None
    THEN IF Val(p.gender) # Val(e.gender)
         THEN Block(<<>>, <<Crit("gender", "only_for")>>, FALSE)
         ELSE Block(<<Crit("gender", "matches")>>, <<>>, TRUE)
    ELSE Skip

check_gender(p, e) ==
    IF e.gender # None
    THEN IF p.gender = None THEN Block(<<>>, <<Crit("gender", "required")>>, FALSE)
         ELSE IF Val(p.gender) # Val(e.gender)
              THEN Block(<<>>, <<Crit("gender", "only_for")>>, FALSE)
              ELSE Block(<<Crit("gender", "matches")>>, <<>>, TRUE)
    ELSE Skip

check_occupation(p, e) ==
    IF e.occupations # None
    THEN IF p.occupation = None
         THEN Block(<<>>, <<Crit("occupation", "required")>>, FALSE)
         ELSE IF Val(p.occupation) \notin Val(e.occupations)
              THEN Block(<<>>, <<Crit("occupation", "only_for")>>, FALSE)
              ELSE Block(<<Crit("occupation", "matches")>>, <<>>, TRUE)
    ELSE Skip

\* the seven blocks in the order the code runs them
check_blocks(p, e) ==
    <<check_age(p, e), check_state(p, e), check_education(p, e), check_income(p, e),
      check_category(p, e), check_gender(p, e), check_occupation(p, e)>>

\* mutant: no criteria at all counts as full confidence
confidence_score_vacuous_one(matching, missing) ==
    LET total_criteria == Len(matching) + Len(missing)
    IN IF total_criteria > 0 THEN <<Len(matching), total_criteria>> ELSE <<1, 1>>

\* len(matching) / total if total > 0 else 0.0, as the fraction <<numerator, denominator>>
confidence_score(matching, missing) ==
    LET total_criteria == Len(matching) + Len(missing)
    IN IF total_criteria > 0 THEN <<Len(matching), total_criteria>> ELSE <<0, 1>>

generate_eligibility_explanation(scheme, is_eligible, matching, missing) ==
    IF is_eligible
    THEN [verdict |-> "eligible", name |-> scheme.id, reasons |-> matching]
    ELSE [verdict |-> "not_eligible", name |-> scheme.id, reasons |-> missing]

check_single_scheme(user_profile, scheme) ==
    LET b == check_blocks(user_profile, scheme.eligibility)
        matching_criteria ==
            b[1].matching \o b[2].matching \o b[3].matching \o b[4].matching
              \o b[5].matching \o b[6].matching \o b[7].matching
        missing_criteria ==
            b[1].missing \o b[2].missing \o b[3].missing \o b[4].missing
              \o b[5].missing \o b[6].missing \o b[7].missing
        is_eligible == \A i \in 1..7 : b[i].ok
    IN [scheme |-> scheme,
        is_eligible |-> is_eligible,
        confidence |-> confidence_score(matching_criteria, missing_criteria),
        matching_criteria |-> matching_criteria,
        missing_criteria |-> missing_criteria,
        explanation |-> generate_eligibility_explanation(
                            scheme, is_eligible, matching_criteria, missing_criteria)]

(***************************************************************************)
(* EligibilityEngine.determine_eligibility                                 *)
(***************************************************************************)
\* the loop: results of the eligible schemes, in input order
RECURSIVE eligible_results(_, _)
eligible_results(user_profile, schemes) ==
    IF schemes = <<>> THEN <<>>
    ELSE LET result == check_single_scheme(user_profile, Head(schemes))
         IN (IF result.is_eligible THEN <<result>> ELSE <<>>)
              \o eligible_results(user_profile, Tail(schemes))

sort_key(r) == Len(r.matching_criteria)

\* mutant: an element overtakes the elements of equal key (not stable)
RECURSIVE insert_desc_overtaking(_, _)
insert_desc_overtaking(x, sorted) ==
    IF sorted = <<>> THEN <<x>>
    ELSE IF sort_key(Head(sorted)) > sort_key(x)
         THEN <<Head(sorted)>> \o insert_desc_overtaking(x, Tail(sorted))
         ELSE <<x>> \o sorted

\* list.sort(key=..., reverse=True): stable, descending by key. An element is
\* placed after every element already placed whose key is not smaller.
RECURSIVE insert_desc(_, _)
insert_desc(x, sorted) ==
    IF sorted = <<>> THEN <<x>>
    ELSE IF sort_key(Head(sorted)) >= sort_key(x)
         THEN <<Head(sorted)>> \o insert_desc(x, Tail(sorted))
         ELSE <<x>> \o sorted

RECURSIVE sort_results(_, _)
sort_results(done, rest) ==
    IF rest = <<>> THEN done
    ELSE sort_results(insert_desc(Head(rest), done), Tail(rest))

\* mutant: the is_eligible filter of the loop dropped
determine_eligibility_unfiltered(user_profile, schemes) ==
    sort_results(<<>>, [i \in DOMAIN schemes |-> check_single_scheme(user_profile, schemes[i])])

determine_eligibility(user_profile, schemes) ==
    sort_results(<<>>, eligible_results(user_profile, schemes))

(***************************************************************************)
(* Inputs of the eligibility engine                                        *)
(***************************************************************************)
MaxCatalog == 3

OptOf(S) == {None} \cup {Some(v) : v \in S}

\* every family unset, a passing value or a failing value
FamilyProfiles ==
    [age : OptOf({25, 50}), state : OptOf({"Maharashtra", "Delhi"}),
     education_level : OptOf({"graduate", "10th_pass"}),
     income_range : OptOf({"1-3lakh", "above_8lakh"}),
     category : OptOf({"sc", "general"}), occupation : OptOf({"student", "farmer"}),
     gender : OptOf({"female", "male"})]

\* every family unconstrained or constrained
FamilyCriteria ==
    {e \in [min_age : OptOf({18}), max_age : OptOf({35}),
            states : OptOf({{"Maharashtra", "Karnataka"}}),
            education_levels : OptOf({{"graduate", "postgraduate"}}),
            income_max : OptOf({300000}), categories : OptOf({{"sc", "st"}}),
            gender : OptOf({"female"}), occupations : OptOf({{"student"}})] :
        (e.min_age = None) <=> (e.max_age = None)}

\* the numeric families and the empty allowed list in detail
NumericProfiles ==
    {[UserProfile EXCEPT !.age = a, !.income_range = i, !.state = s] :
        a \in OptOf({0, 17, 18, 35, 36, 70}),
        i \in OptOf({"below_1lakh", "1-3lakh", "3-5lakh", "5-8lakh", "above_8lakh", "10lakh"}),
        s \in OptOf({"Maharashtra"})}

NumericCriteria ==
    {[EligibilityCriteria EXCEPT !.min_age = lo, !.max_age = hi, !.income_max = m,
                                 !.states = st] :
        lo \in OptOf({0, 18, 60}), hi \in OptOf({35}),
        m \in OptOf({0, 99999, 100000, 300000, 500000, 799999, 800000, 900000}),
        st \in OptOf({{}, {"Maharashtra"}})}

\* the catalog entries determine_eligibility is run on
SchemePool ==
    {Scheme("open", EligibilityCriteria),
     Scheme("youth", [EligibilityCriteria EXCEPT !.min_age = Some(18), !.max_age = Some(35)]),
     Scheme("women", [EligibilityCriteria EXCEPT !.gender = Some("female")]),
     Scheme("state_youth", [EligibilityCriteria EXCEPT !.min_age = Some(18),
                               !.max_age = Some(35), !.states = Some({"Maharashtra"})])}

CatalogProfiles ==
    {[UserProfile EXCEPT !.age = a, !.state = s, !.gender = g] :
        a \in OptOf({25, 50}), s \in OptOf({"Maharashtra", "Delhi"}),
        g \in OptOf({"female", "male"})}

SeqsUpTo(S, n) == UNION {[1..k -> S] : k \in 0..n}

Catalogs == SeqsUpTo(SchemePool, MaxCatalog)

(***************************************************************************)
(* The eligibility engine driven on one input                              *)
(***************************************************************************)
\* the conversation side before any session exists
\* KnowledgeBase(): no entry, an empty IndexFlatL2
KnowledgeBase == [schemes |-> <<>>, index |-> <<>>]

\* the instances made with the same index_path
Instances == {1, 2}

\* no instance has been used, no file written
NoKnowledgeBase ==
    /\ kbs = [i \in Instances |-> KnowledgeBase]
    /\ disk = [faiss |-> None, pkl |-> None]
    /\ kb_ret = [op |-> "none"]

NoConversation ==
    /\ NoKnowledgeBase
    /\ sessions = <<>>
    /\ now = 0
    /\ api_schemes = <<>>
    /\ ai_enabled = FALSE
    /\ ret = [op |-> "none"]
    /\ opening = FALSE
    /\ n_updates = 0
    /\ n_turns = 0
    /\ issued = {}
    /\ turns = <<>>
    /\ loop = 0

InitElig ==
    /\ NoConversation
    /\ el_result = None
    /\ el_results = None
    /\ \/ /\ pc = "call_check_single_scheme"
          /\ el_schemes = <<>>
          /\ \/ /\ el_profile \in FamilyProfiles
                /\ \E e \in FamilyCriteria : el_scheme = Scheme("s", e)
             \/ /\ el_profile \in NumericProfiles
                /\ \E e \in NumericCriteria : el_scheme = Scheme("s", e)
       \/ /\ pc = "call_determine_eligibility"
          /\ el_scheme = Scheme("open", EligibilityCriteria)
          /\ el_profile \in CatalogProfiles
          /\ el_schemes \in Catalogs

CheckSingleScheme ==
    /\ pc = "call_check_single_scheme"
    /\ el_result' = Some(check_single_scheme(el_profile, el_scheme))
    /\ pc' = "checked"
    /\ UNCHANGED <<el_profile, el_scheme, el_schemes, el_results, cvvars>>

DetermineEligibility ==
    /\ pc = "call_determine_eligibility"
    /\ el_results' = Some(determine_eligibility(el_profile, el_schemes))
    /\ pc' = "determined"
    /\ UNCHANGED <<el_profile, el_scheme, el_schemes, el_result, cvvars>>

NextElig == CheckSingleScheme \/ DetermineEligibility

SpecElig == InitElig /\ [][NextElig]_vars

(***************************************************************************)
(* ConversationEngine (app/services/conversation.py)                       *)
(***************************************************************************)
SESSION_TIMEOUT == 30

Message(role, content) == [role |-> role, content |-> content]

\* GREETINGS.get(language, GREETINGS["en"]): the text is named by its language
GREETINGS_get(language) ==
    [text |-> "greeting", lang |-> IF language \in {"en", "hi"} THEN language ELSE "en"]

\* QUESTIONS[field_name].get(language, QUESTIONS[field_name]["en"])
QUESTIONS_get(field_name, language) ==
    [text |-> "question", field |-> field_name,
     lang |-> IF language \in {"en", "hi"} THEN language ELSE "en"]

ConversationState(session_id, language, t) ==
    [session_id |-> session_id, language |-> language, user_profile |-> UserProfile,
     asked_questions |-> <<>>, current_stage |-> "greeting",
     conversation_history |-> <<>>, created_at |-> t, last_activity |-> t]

\* _add_message; the message timestamp is left out of the history entries
add_message(state, role, content, t) ==
    [state EXCEPT !.conversation_history = Append(@, Message(role, content)),
                  !.last_activity = t]

\* mutant: the greeting is not added to the history
start_conversation_without_greeting(language, session_id, t) ==
    ConversationState(session_id, language, t)

\* the state start_conversation stores and returns
start_conversation(language, session_id, t) ==
    add_message(ConversationState(session_id, language, t), "assistant",
                GREETINGS_get(language), t)

ProfileFields ==
    {"age", "state", "education_level", "income_range", "category", "gender", "occupation"}

\* getattr(profile, field_name)
getattr(profile, field_name) ==
    CASE field_name = "age"             -> profile.age
      [] field_name = "state"           -> profile.state
      [] field_name = "education_level" -> profile.education_level
      [] field_name = "income_range"    -> profile.income_range
      [] field_name = "category"        -> profile.category
      [] field_name = "gender"          -> profile.gender
      [] field_name = "occupation"      -> profile.occupation

\* setattr(profile, field_name, value): plain assignment, nothing is validated
setattr(profile, field_name, value) ==
    CASE field_name = "age"             -> [profile EXCEPT !.age = value]
      [] field_name = "state"           -> [profile EXCEPT !.state = value]
      [] field_name = "education_level" -> [profile EXCEPT !.education_level = value]
      [] field_name = "income_range"    -> [profile EXCEPT !.income_range = value]
      [] field_name = "category"        -> [profile EXCEPT !.category = value]
      [] field_name = "gender"          -> [profile EXCEPT !.gender = value]
      [] field_name = "occupation"      -> [profile EXCEPT !.occupation = value]

\* the priority order of get_next_question
question_order ==
    <<"age", "state", "education_level", "income_range", "category", "gender", "occupation">>

SeqRange(seq) == {seq[i] : i \in DOMAIN seq}

MinOf(S) == CHOOSE x \in S : \A y \in S : x <= y

\* mutant: the scan does not look at asked_questions
get_next_question_ignores_asked(state) ==
    LET s1 == IF state.current_stage = "greeting"
              THEN [state EXCEPT !.current_stage = "info_collection"] ELSE state
        open == {i \in DOMAIN question_order :
                    getattr(s1.user_profile, question_order[i]) = None}
    IN IF s1.current_stage # "info_collection" \/ open = {}
       THEN [state |-> s1, value |-> None]
       ELSE [state |-> [s1 EXCEPT !.asked_questions =
                                     Append(@, question_order[MinOf(open)])],
             value |-> Some(QUESTIONS_get(question_order[MinOf(open)], s1.language))]

\* mutant: the scan is made in every stage
get_next_question_any_stage(state) ==
    LET s1 == IF state.current_stage = "greeting"
              THEN [state EXCEPT !.current_stage = "info_collection"] ELSE state
        open == {i \in DOMAIN question_order :
                    /\ getattr(s1.user_profile, question_order[i]) = None
                    /\ question_order[i] \notin SeqRange(s1.asked_questions)}
    IN IF open = {}
       THEN [state |-> s1, value |-> None]
       ELSE [state |-> [s1 EXCEPT !.asked_questions =
                                     Append(@, question_order[MinOf(open)])],
             value |-> Some(QUESTIONS_get(question_order[MinOf(open)], s1.language))]

\* get_next_question: the state it leaves and the value it returns
get_next_question(state) ==
    LET s1 == IF state.current_stage = "greeting"
              THEN [state EXCEPT !.current_stage = "info_collection"] ELSE state
        open == {i \in DOMAIN question_order :
                    /\ getattr(s1.user_profile, question_order[i]) = None
                    /\ question_order[i] \notin SeqRange(s1.asked_questions)}
    IN IF s1.current_stage # "info_collection" \/ open = {}
       THEN [state |-> s1, value |-> None]
       ELSE [state |-> [s1 EXCEPT !.asked_questions =
                                     Append(@, question_order[MinOf(open)])],
             value |-> Some(QUESTIONS_get(question_order[MinOf(open)], s1.language))]

\* mutant: every one of the seven fields is required
is_information_complete_all_fields(state) ==
    \A f \in ProfileFields : getattr(state.user_profile, f) # None

\* mutant: the region is not looked at
is_information_complete_age_only(state) ==
    IF state.user_profile.age = None THEN FALSE ELSE TRUE

is_information_complete(state) ==
    IF state.user_profile.age = None \/ state.user_profile.state = None
    THEN FALSE ELSE TRUE

\* hasattr(state.user_profile, field)
hasattr(profile, field) == field \in ProfileFields

\* mutant: last_activity is refreshed whether or not the field exists
update_user_profile_always_touches(state, field, value, t) ==
    IF hasattr(state.user_profile, field)
    THEN [state EXCEPT !.user_profile = setattr(@, field, value), !.last_activity = t]
    ELSE [state EXCEPT !.last_activity = t]

update_user_profile(state, field, value, t) ==
    IF hasattr(state.user_profile, field)
    THEN [state EXCEPT !.user_profile = setattr(@, field, value), !.last_activity = t]
    ELSE state

\* the content of a user message is the message text, a sequence of words
add_user_message(state, content, t) ==
    add_message(state, "user", [text |-> "user", words |-> content], t)

add_assistant_message(state, content, t) == add_message(state, "assistant", content, t)

\* mutant: the completeness test dropped
transition_to_eligibility_unguarded(state, t) ==
    [state EXCEPT !.current_stage = "eligibility", !.last_activity = t]

transition_to_eligibility(state, t) ==
    IF is_information_complete(state)
    THEN [state EXCEPT !.current_stage = "eligibility", !.last_activity = t]
    ELSE state

transition_to_guidance(state, t) ==
    [state EXCEPT !.current_stage = "guidance", !.last_activity = t]

\* get_missing_information
get_missing_information(state) ==
    LET Unset(f) == getattr(state.user_profile, f) = None
    IN SelectSeq(question_order, Unset)

(***************************************************************************)
(* The engine's methods called on one session, in any order                *)
(***************************************************************************)
\* calls that write to the session: update_user_profile and the add-message pair
MaxUpdates == 2
MaxTime == 31

Languages == {"en", "hi", "ta"}

\* the (field, value) pairs update_user_profile is called with
UpdateArgs ==
    ({"age"} \X {None, Some(0), Some(25), Some(150)})
      \cup ({"state"} \X {None, Some("Maharashtra")})
      \cup ({"education_level"} \X {None, Some("graduate")})
      \cup ({"occupation"} \X {Some("student")})
      \cup ({"nickname"} \X {Some("x")})

\* the clock advances by exactly the timeout or by one minute more
TickSteps == {SESSION_TIMEOUT, SESSION_TIMEOUT + 1}

Call(op, sid, args, value) == [op |-> op, sid |-> sid, args |-> args, value |-> value]

Tick ==
    /\ \E d \in TickSteps : now + d <= MaxTime /\ now' = now + d
    /\ UNCHANGED <<sessions, api_schemes, ai_enabled, ret, opening, n_updates, n_turns, issued, turns, loop, elvars, kbvars>>

GetNextQuestion(sid) ==
    /\ sid \in DOMAIN sessions
    /\ LET r == get_next_question(sessions[sid])
       IN /\ sessions' = [sessions EXCEPT ![sid] = r.state]
          /\ ret' = Call("get_next_question", sid, <<>>, r.value)
    /\ UNCHANGED <<now, api_schemes, ai_enabled, opening, n_updates, n_turns, issued, turns, loop, elvars, kbvars>>

IsInformationComplete(sid) ==
    /\ sid \in DOMAIN sessions
    /\ ret' = Call("is_information_complete", sid, <<>>, is_information_complete(sessions[sid]))
    /\ opening' = FALSE
    /\ UNCHANGED <<sessions, now, api_schemes, ai_enabled, n_updates, n_turns, issued, turns, loop, elvars, kbvars>>

UpdateUserProfile(sid) ==
    /\ sid \in DOMAIN sessions
    /\ n_updates < MaxUpdates
    /\ \E a \in UpdateArgs :
          /\ sessions' = [sessions EXCEPT ![sid] = update_user_profile(@, a[1], a[2], now)]
          /\ ret' = Call("update_user_profile", sid, a, None)
    /\ n_updates' = n_updates + 1
    /\ opening' = FALSE
    /\ UNCHANGED <<now, api_schemes, ai_enabled, n_turns, issued, turns, loop, elvars, kbvars>>

AddUserMessage(sid) ==
    /\ sid \in DOMAIN sessions
    /\ n_updates < MaxUpdates
    /\ n_updates' = n_updates + 1
    /\ sessions' = [sessions EXCEPT ![sid] = add_user_message(@, <<"hello">>, now)]
    /\ ret' = Call("add_user_message", sid, <<"hello">>, None)
    /\ opening' = FALSE
    /\ UNCHANGED <<now, api_schemes, ai_enabled, n_turns, issued, turns, loop, elvars, kbvars>>

AddAssistantMessage(sid) ==
    /\ sid \in DOMAIN sessions
    /\ n_updates < MaxUpdates
    /\ n_updates' = n_updates + 1
    /\ sessions' = [sessions EXCEPT ![sid] = add_assistant_message(@, [text |-> "reply"], now)]
    /\ ret' = Call("add_assistant_message", sid, [text |-> "reply"], None)
    /\ opening' = FALSE
    /\ UNCHANGED <<now, api_schemes, ai_enabled, n_turns, issued, turns, loop, elvars, kbvars>>

TransitionToEligibility(sid) ==
    /\ sid \in DOMAIN sessions
    /\ sessions' = [sessions EXCEPT ![sid] = transition_to_eligibility(@, now)]
    /\ ret' = Call("transition_to_eligibility", sid, <<>>, None)
    /\ opening' = FALSE
    /\ UNCHANGED <<now, api_schemes, ai_enabled, n_updates, n_turns, issued, turns, loop, elvars, kbvars>>

TransitionToGuidance(sid) ==
    /\ sid \in DOMAIN sessions
    /\ sessions' = [sessions EXCEPT ![sid] = transition_to_guidance(@, now)]
    /\ ret' = Call("transition_to_guidance", sid, <<>>, None)
    /\ opening' = FALSE
    /\ UNCHANGED <<now, api_schemes, ai_enabled, n_updates, n_turns, issued, turns, loop, elvars, kbvars>>

\* the eligibility driver at rest
NoEligibility ==
    /\ NoKnowledgeBase
    /\ pc = "idle"
    /\ el_profile = UserProfile
    /\ el_scheme = Scheme("open", EligibilityCriteria)
    /\ el_schemes = <<>>
    /\ el_result = None
    /\ el_results = None

\* one session, as start_conversation leaves it
InitEngine ==
    /\ NoEligibility
    /\ now = 0
    /\ \E language \in Languages : sessions = (1 :> start_conversation(language, 1, 0))
    /\ api_schemes = <<>>
    /\ ai_enabled = FALSE
    /\ ret = [op |-> "start_conversation"]
    /\ opening = TRUE
    /\ n_updates = 0
    /\ n_turns = 0
    /\ issued = {1}
    /\ turns = <<>>
    /\ loop = 0

NextEngine ==
    \/ Tick
    \/ GetNextQuestion(1)
    \/ IsInformationComplete(1)
    \/ UpdateUserProfile(1)
    \/ AddUserMessage(1)
    \/ AddAssistantMessage(1)
    \/ TransitionToEligibility(1)
    \/ TransitionToGuidance(1)

SpecEngine == InitEngine /\ [][NextEngine]_vars

(***************************************************************************)
(* The send-message handler (app/api/conversation.py)                      *)
(*                                                                         *)
(* A message text is a sequence of words. What the handler reads of a text *)
(* is the first standalone one- or two-digit number (re.search) and which  *)
(* keywords occur in it as substrings (the "in" tests).                    *)
(***************************************************************************)
AI_CONFIDENCE_THRESHOLD == 60

\* the number a word is when it is a standalone run of one or two digits
WordNumber(w) ==
    CASE w = "25" -> Some(25)
      [] w = "50" -> Some(50)
      [] OTHER    -> None

\* the keywords of _extract_and_update_profile that occur in a word
KeywordsIn(w) ==
    CASE w = "maharashtra" -> {"maharashtra"}
      [] w = "delhi"       -> {"delhi"}
      [] w = "graduate"    -> {"graduate"}
      [] w = "female"      -> {"female", "male"}
      [] w = "student"     -> {"student", "st"}
      [] OTHER             -> {}

\* keyword in message_lower
Contains(message, keyword) == \E i \in DOMAIN message : keyword \in KeywordsIn(message[i])

ContainsAny(message, keywords) == \E k \in keywords : Contains(message, k)

\* re.search(r'\b(\d{1,2})\b', message_lower): the first match, or None
age_match(message) ==
    LET hits == {i \in DOMAIN message : WordNumber(message[i]) # None}
    IN IF hits = {} THEN None ELSE WordNumber(message[MinOf(hits)])

\* the states dictionary, in its iteration order
state_keywords ==
    <<<<"maharashtra", "Maharashtra">>, <<"karnataka", "Karnataka">>, <<"delhi", "Delhi">>,
      <<"tamil nadu", "Tamil Nadu">>, <<"west bengal", "West Bengal">>,
      <<"gujarat", "Gujarat">>, <<"rajasthan", "Rajasthan">>,
      <<"uttar pradesh", "Uttar Pradesh">>>>

extract_age(state, message, t) ==
    LET m == age_match(message)
    IN IF m # None /\ state.user_profile.age = None /\ 1 <= Val(m) /\ Val(m) <= 120
       THEN update_user_profile(state, "age", m, t)
       ELSE state

extract_state(state, message, t) ==
    LET hits == {i \in DOMAIN state_keywords : Contains(message, state_keywords[i][1])}
    IN IF hits # {} /\ state.user_profile.state = None
       THEN update_user_profile(state, "state", Some(state_keywords[MinOf(hits)][2]), t)
       ELSE state

extract_education(state, message, t) ==
    IF state.user_profile.education_level # None THEN state
    ELSE IF ContainsAny(message, {"graduate", "degree", "bachelor"})
         THEN update_user_profile(state, "education_level", Some("graduate"), t)
    ELSE IF ContainsAny(message, {"12th", "12", "intermediate"})
         THEN update_user_profile(state, "education_level", Some("12th_pass"), t)
    ELSE IF ContainsAny(message, {"10th", "10", "matriculation"})
         THEN update_user_profile(state, "education_level", Some("10th_pass"), t)
    ELSE state

extract_income(state, message, t) ==
    IF state.user_profile.income_range # None THEN state
    ELSE IF ContainsAny(message, {"below 1 lakh", "less than 1 lakh", "under 1 lakh"})
         THEN update_user_profile(state, "income_range", Some("below_1lakh"), t)
    ELSE IF ContainsAny(message, {"1-3 lakh", "1 to 3 lakh"})
         THEN update_user_profile(state, "income_range", Some("1-3lakh"), t)
    ELSE state

extract_category(state, message, t) ==
    IF state.user_profile.category # None THEN state
    ELSE IF ContainsAny(message, {"sc", "scheduled caste"})
         THEN update_user_profile(state, "category", Some("sc"), t)
    ELSE IF ContainsAny(message, {"st", "scheduled tribe"})
         THEN update_user_profile(state, "category", Some("st"), t)
    ELSE IF ContainsAny(message, {"obc", "other backward"})
         THEN update_user_profile(state, "category", Some("obc"), t)
    ELSE IF Contains(message, "general")
         THEN update_user_profile(state, "category", Some("general"), t)
    ELSE state

extract_gender(state, message, t) ==
    IF state.user_profile.gender # None THEN state
    ELSE IF ContainsAny(message, {"male", "man", "boy"})
         THEN update_user_profile(state, "gender", Some("male"), t)
    ELSE IF ContainsAny(message, {"female", "woman", "girl"})
         THEN update_user_profile(state, "gender", Some("female"), t)
    ELSE state

extract_occupation(state, message, t) ==
    IF state.user_profile.occupation # None THEN state
    ELSE IF Contains(message, "student")
         THEN update_user_profile(state, "occupation", Some("student"), t)
    ELSE IF Contains(message, "farmer")
         THEN update_user_profile(state, "occupation", Some("farmer"), t)
    ELSE IF ContainsAny(message, {"unemployed", "jobless"})
         THEN update_user_profile(state, "occupation", Some("unemployed"), t)
    ELSE state

\* _extract_and_update_profile: the seven extractions one after the other,
\* each on the state the one before it left
extract_and_update_profile(state, message, t) ==
    LET after_age        == {extract_age(state, message, t)}
        after_state      == {extract_state(s, message, t) : s \in after_age}
        after_education  == {extract_education(s, message, t) : s \in after_state}
        after_income     == {extract_income(s, message, t) : s \in after_education}
        after_category   == {extract_category(s, message, t) : s \in after_income}
        after_gender     == {extract_gender(s, message, t) : s \in after_category}
        after_occupation == {extract_occupation(s, message, t) : s \in after_gender}
    IN CHOOSE s \in after_occupation : TRUE

\* for field, value in extracted_data.items(): update_user_profile if value is not None
RECURSIVE apply_extracted_data(_, _, _)
apply_extracted_data(state, items, t) ==
    IF items = <<>> THEN state
    ELSE apply_extracted_data(
            IF Head(items)[2] # None
            THEN update_user_profile(state, Head(items)[1], Head(items)[2], t)
            ELSE state,
            Tail(items), t)

\* mutant: finding one expired session removes every expired session
get_session_sweeps(store, session_id, t) ==
    IF session_id \notin DOMAIN store THEN [store |-> store, state |-> None]
    ELSE IF t - store[session_id].last_activity > SESSION_TIMEOUT
         THEN [store |-> [k \in {j \in DOMAIN store :
                                    t - store[j].last_activity <= SESSION_TIMEOUT}
                            |-> store[k]],
               state |-> None]
         ELSE [store |-> store, state |-> Some(store[session_id])]

\* mutant: an expired session is reported not found but stays stored
get_session_keeps_expired(store, session_id, t) ==
    IF session_id \notin DOMAIN store THEN [store |-> store, state |-> None]
    ELSE IF t - store[session_id].last_activity > SESSION_TIMEOUT
         THEN [store |-> store, state |-> None]
         ELSE [store |-> store, state |-> Some(store[session_id])]

\* get_session: the store it leaves (an expired session is deleted) and the
\* state it returns, None when the id is unknown or the session expired
get_session(store, session_id, t) ==
    IF session_id \notin DOMAIN store THEN [store |-> store, state |-> None]
    ELSE IF t - store[session_id].last_activity > SESSION_TIMEOUT
         THEN [store |-> [k \in DOMAIN store \ {session_id} |-> store[k]], state |-> None]
         ELSE [store |-> store, state |-> Some(store[session_id])]

\* results[:3]
top3(results) == SubSeq(results, 1, IF Len(results) < 3 THEN Len(results) ELSE 3)

\* one entry of eligible_schemes_data
scheme_data(result, ai_explanation) ==
    [id |-> result.scheme.id, confidence |-> result.confidence,
     explanation |-> IF ai_explanation # None THEN ai_explanation
                     ELSE Some(result.explanation)]

\* mutant: a session in guidance is evaluated again
ready_for_eligibility_or_guidance(state) ==
    state.current_stage \in {"info_collection", "guidance"}

\* if state.current_stage == "info_collection"
ready_for_eligibility(state) == state.current_stage = "info_collection"

\* mutant: nothing found leaves the stage as transition_to_eligibility set it
after_no_results_stays(state) == state

\* state.current_stage = "info_collection" of the nothing-found branch
after_no_results(state) == [state EXCEPT !.current_stage = "info_collection"]

\* mutant: the AI data is applied whatever its confidence
extract_turn_any_confidence(state, message, ai, t) ==
    IF ai.data # <<>>
    THEN apply_extracted_data(state, ai.data, t)
    ELSE extract_and_update_profile(state, message, t)

\* "Apply AI-extracted data if confidence is high enough", else the fallback.
\* ai is what extract_user_info returned (data, confidence)
extract_turn(state, message, ai, t) ==
    IF ai.confidence >= AI_CONFIDENCE_THRESHOLD /\ ai.data # <<>>
    THEN apply_extracted_data(state, ai.data, t)
    ELSE extract_and_update_profile(state, message, t)

\* mutant: the results are shown without the move to guidance
respond_evaluated_without_guidance(state, results, ai_explanation, t) ==
    IF results # <<>>
    THEN [state |-> state,
          evaluated |-> TRUE,
          response_text |-> [text |-> "found", count |-> Len(results)],
          next_question |-> None,
          eligible_schemes_data |->
              Some([i \in DOMAIN top3(results) |->
                       scheme_data(top3(results)[i], ai_explanation[i])])]
    ELSE [state |-> after_no_results(state),
          evaluated |-> TRUE,
          response_text |-> [text |-> "none_found"],
          next_question |-> None,
          eligible_schemes_data |-> None]

\* the branch taken after determine_eligibility returned results; state is the
\* session after transition_to_eligibility, ai_explanation[i] what
\* generate_explanation returned for the i-th shown result
respond_evaluated(state, results, ai_explanation, t) ==
    IF results # <<>>
    THEN [state |-> transition_to_guidance(state, t),
          evaluated |-> TRUE,
          response_text |-> [text |-> "found", count |-> Len(results)],
          next_question |-> None,
          eligible_schemes_data |->
              Some([i \in DOMAIN top3(results) |->
                       scheme_data(top3(results)[i], ai_explanation[i])])]
    ELSE [state |-> after_no_results(state),
          evaluated |-> TRUE,
          response_text |-> [text |-> "none_found"],
          next_question |-> None,
          eligible_schemes_data |-> None]

\* the branch taken when the information is not complete; asked is what
\* get_next_question left and returned
respond_incomplete(asked) ==
    [state |-> asked.state,
     evaluated |-> FALSE,
     response_text |-> IF asked.value # None THEN Val(asked.value)
                       ELSE [text |-> "thank_you"],
     next_question |-> asked.value,
     eligible_schemes_data |-> None]

\* "Determine response": the session state left, the response text, the next
\* question, the eligible entries, and whether determine_eligibility was called
determine_response(state, ai_explanation, catalog, t) ==
    IF is_information_complete(state)
    THEN IF ready_for_eligibility(state)
         THEN CHOOSE d \in
                 {respond_evaluated(s, results, ai_explanation, t) :
                    s \in {transition_to_eligibility(state, t)},
                    results \in {determine_eligibility(state.user_profile, catalog)}} : TRUE
         ELSE [state |-> state,
               evaluated |-> FALSE,
               response_text |-> [text |-> "anything_else"],
               next_question |-> None,
               eligible_schemes_data |-> None]
    ELSE CHOOSE d \in {respond_incomplete(asked) : asked \in {get_next_question(state)}} : TRUE

\* "Add assistant response" and the SendMessageResponse; state is the session
\* after add_assistant_message
send_message_response(state, d) ==
    [state |-> state,
     evaluated |-> d.evaluated,
     response |-> [status |-> 200,
                   response |-> d.response_text,
                   next_question |-> IF state.current_stage = "info_collection"
                                     THEN d.next_question ELSE None,
                   stage |-> state.current_stage,
                   information_complete |-> is_information_complete(state),
                   eligible_schemes |-> d.eligible_schemes_data]]

\* send_message from "Add user message" on, for a session that was found.
\* Yields the session state left, whether determine_eligibility was called,
\* and the response.
send_message(state, message, ai, ai_explanation, catalog, t) ==
    LET added     == {add_user_message(state, message, t)}
        extracted == {extract_turn(s, message, ai, t) : s \in added}
        decided   == {determine_response(s, ai_explanation, catalog, t) : s \in extracted}
        answered  == {send_message_response(
                          add_assistant_message(d.state, d.response_text, t), d) :
                        d \in decided}
    IN CHOOSE r \in answered : TRUE

\* how many results the turn shows: generate_explanation is called once for each
shown_count(state, message, ai, catalog, t) ==
    LET shown == {send_message(state, message, ai, [i \in 1..3 |-> None], catalog, t)
                     .response.eligible_schemes}
    IN CHOOSE n \in {IF e = None THEN 0 ELSE Len(Val(e)) : e \in shown} : TRUE

\* HTTPException(404, "Session not found or expired")
NotFound == [status |-> 404]

(***************************************************************************)
(* Turns on one session                                                    *)
(***************************************************************************)
MaxTurns == 3

Messages ==
    {<<"hello">>, <<"25">>, <<"50", "delhi">>, <<"delhi">>, <<"female">>,
     <<"25", "maharashtra">>}

\* what extract_user_info returns when the assistant is enabled: nothing
\* (also on any failure), nothing recognized in a reply that states a
\* confidence, or data with a confidence in hundredths
AIExtractions ==
    {[data |-> <<>>, confidence |-> 0],
     [data |-> <<>>, confidence |-> 90],
     [data |-> <<<<"age", Some(30)>>, <<"state", Some("Karnataka")>>>>, confidence |-> 50],
     [data |-> <<<<"state", Some("Karnataka")>>, <<"gender", Some("female")>>>>,
      confidence |-> 60]}

\* extracted_data = {}, extraction_confidence = 0.0 when the assistant is not available
NoExtraction == [data |-> <<>>, confidence |-> 0]

Scheme_open == Scheme("open", EligibilityCriteria)
Scheme_youth ==
    Scheme("youth", [EligibilityCriteria EXCEPT !.min_age = Some(18), !.max_age = Some(35)])
Scheme_women == Scheme("women", [EligibilityCriteria EXCEPT !.gender = Some("female")])
Scheme_state_youth ==
    Scheme("state_youth", [EligibilityCriteria EXCEPT !.min_age = Some(18),
                              !.max_age = Some(35), !.states = Some({"Maharashtra"})])

\* the catalogs the API is started with
ApiCatalogs ==
    {<<Scheme_youth, Scheme_women>>,
     <<Scheme_women, Scheme_open, Scheme_youth, Scheme_state_youth>>}

SendMessage(sid) ==
    /\ n_turns < MaxTurns
    /\ n_turns' = n_turns + 1
    /\ \E message \in Messages, found \in {get_session(sessions, sid, now)} :
         IF found.state = None
         THEN /\ sessions' = found.store
              /\ ret' = [op |-> "send_message", sid |-> sid, args |-> message,
                         before |-> None, evaluated |-> FALSE, response |-> NotFound]
         ELSE \E ai \in IF ai_enabled THEN AIExtractions ELSE {NoExtraction} :
              \E ai_explanation \in
                     [1..shown_count(Val(found.state), message, ai, api_schemes, now)
                         -> IF ai_enabled THEN {None, Some("ai_text")} ELSE {None}] :
              \E r \in {send_message(Val(found.state), message, ai, ai_explanation,
                                     api_schemes, now)} :
                 /\ sessions' = [found.store EXCEPT ![sid] = r.state]
                 /\ ret' = [op |-> "send_message", sid |-> sid, args |-> message,
                            before |-> found.state, evaluated |-> r.evaluated,
                            response |-> r.response]
    /\ opening' = FALSE
    /\ UNCHANGED <<now, api_schemes, ai_enabled, n_updates, issued, turns, loop, elvars, kbvars>>

\* get_conversation_summary
get_conversation_summary(state) ==
    [status |-> 200,
     session_id |-> state.session_id,
     language |-> state.language,
     current_stage |-> state.current_stage,
     messages_count |-> Len(state.conversation_history),
     information_complete |-> is_information_complete(state),
     missing_fields |-> get_missing_information(state),
     user_profile |-> state.user_profile]

GetConversationState(sid) ==
    /\ \E found \in {get_session(sessions, sid, now)} :
          /\ sessions' = found.store
          /\ ret' = [op |-> "get_conversation_state", sid |-> sid, args |-> <<>>,
                     before |-> found.state, evaluated |-> FALSE,
                     response |-> IF found.state = None THEN NotFound
                                  ELSE get_conversation_summary(Val(found.state))]
    /\ opening' = FALSE
    /\ UNCHANGED <<now, api_schemes, ai_enabled, n_updates, n_turns, issued, turns, loop, elvars, kbvars>>

\* the API module loaded, one session started in the request's default language
InitTurn ==
    /\ NoEligibility
    /\ now = 0
    /\ sessions = (1 :> start_conversation("en", 1, 0))
    /\ api_schemes \in ApiCatalogs
    /\ ai_enabled \in BOOLEAN
    /\ ret = [op |-> "start_conversation"]
    /\ opening = TRUE
    /\ n_updates = 0
    /\ n_turns = 0
    /\ issued = {1}
    /\ turns = <<>>
    /\ loop = 0

NextTurn ==
    \/ Tick
    \/ SendMessage(1)
    \/ GetConversationState(1)

SpecTurn == InitTurn /\ [][NextTurn]_vars

(***************************************************************************)
(* The session store (ConversationEngine._sessions)                        *)
(***************************************************************************)
MaxSessions == 2

SessionIds == 1..MaxSessions

\* str(uuid4()): an id never handed out before; ids are numbered in the
\* order they are handed out
uuid4(used) == MinOf(SessionIds \ used)

\* del self._sessions[session_id]
del(store, session_id) == [k \in DOMAIN store \ {session_id} |-> store[k]]

\* self._sessions[session_id] = state
store_session(store, session_id, state) ==
    [k \in DOMAIN store \cup {session_id} |-> IF k = session_id THEN state ELSE store[k]]

\* mutant: the session is reported ended but stays stored
end_conversation_keeps(store, session_id) ==
    [store |-> store, value |-> session_id \in DOMAIN store]

\* end_conversation: the store it leaves and the value it returns
end_conversation(store, session_id) ==
    IF session_id \in DOMAIN store
    THEN [store |-> del(store, session_id), value |-> TRUE]
    ELSE [store |-> store, value |-> FALSE]

\* now - state.last_activity > SESSION_TIMEOUT
is_expired(state, t) == t - state.last_activity > SESSION_TIMEOUT

\* mutant: the sweep also takes the sessions idle for exactly the timeout
cleanup_expired_sessions_at_timeout(store, t) ==
    LET expired == {sid \in DOMAIN store : t - store[sid].last_activity >= SESSION_TIMEOUT}
    IN [store |-> [k \in DOMAIN store \ expired |-> store[k]],
        value |-> Cardinality(expired)]

\* cleanup_expired_sessions: the store it leaves and the count it returns
cleanup_expired_sessions(store, t) ==
    LET expired == {sid \in DOMAIN store : is_expired(store[sid], t)}
    IN [store |-> [k \in DOMAIN store \ expired |-> store[k]],
        value |-> Cardinality(expired)]

\* mutant: the truth value of the store in place of its length
get_active_sessions_count_any(store) == IF DOMAIN store = {} THEN 0 ELSE 1

\* get_active_sessions_count: len(cls._sessions)
get_active_sessions_count(store) == Cardinality(DOMAIN store)

\* the calls made on a stored session by whoever holds it
SessionCalls ==
    {[op |-> "get_next_question", args |-> <<>>],
     [op |-> "update_user_profile", args |-> <<"age", Some(25)>>],
     [op |-> "update_user_profile", args |-> <<"nickname", Some("x")>>],
     [op |-> "add_user_message", args |-> <<"hello">>],
     [op |-> "add_assistant_message", args |-> [text |-> "reply"]],
     [op |-> "transition_to_eligibility", args |-> <<>>],
     [op |-> "transition_to_guidance", args |-> <<>>]}

\* the state a call leaves and the value it returns
apply_call(state, call, t) ==
    CASE call.op = "get_next_question" -> get_next_question(state)
      [] call.op = "update_user_profile" ->
            [state |-> update_user_profile(state, call.args[1], call.args[2], t),
             value |-> None]
      [] call.op = "add_user_message" ->
            [state |-> add_user_message(state, call.args, t), value |-> None]
      [] call.op = "add_assistant_message" ->
            [state |-> add_assistant_message(state, call.args, t), value |-> None]
      [] call.op = "transition_to_eligibility" ->
            [state |-> transition_to_eligibility(state, t), value |-> None]
      [] call.op = "transition_to_guidance" ->
            [state |-> transition_to_guidance(state, t), value |-> None]

\* a call on the store: what Call records, the store the call found and when
StoreCall(op, sid, args, value) ==
    [op |-> op, sid |-> sid, args |-> args, value |-> value,
     before |-> sessions, at |-> now]

StartConversation ==
    /\ Cardinality(issued) < MaxSessions
    /\ \E language \in {"hi"}, session_id \in {uuid4(issued)} :
          /\ sessions' = store_session(sessions, session_id,
                                       start_conversation(language, session_id, now))
          /\ issued' = issued \cup {session_id}
          /\ ret' = StoreCall("start_conversation", session_id, language,
                         Some(start_conversation(language, session_id, now)))
    /\ opening' = FALSE
    /\ UNCHANGED <<now, api_schemes, ai_enabled, n_updates, n_turns, turns, loop, elvars, kbvars>>

GetSession(sid) ==
    /\ \E found \in {get_session(sessions, sid, now)} :
          /\ sessions' = found.store
          /\ ret' = StoreCall("get_session", sid, <<>>, found.state)
    /\ opening' = FALSE
    /\ UNCHANGED <<now, api_schemes, ai_enabled, n_updates, n_turns, issued, turns, loop, elvars, kbvars>>

EndConversation(sid) ==
    /\ \E ended \in {end_conversation(sessions, sid)} :
          /\ sessions' = ended.store
          /\ ret' = StoreCall("end_conversation", sid, <<>>, ended.value)
    /\ opening' = FALSE
    /\ UNCHANGED <<now, api_schemes, ai_enabled, n_updates, n_turns, issued, turns, loop, elvars, kbvars>>

CleanupExpiredSessions ==
    /\ \E swept \in {cleanup_expired_sessions(sessions, now)} :
          /\ sessions' = swept.store
          /\ ret' = StoreCall("cleanup_expired_sessions", 0, <<>>, swept.value)
    /\ opening' = FALSE
    /\ UNCHANGED <<now, api_schemes, ai_enabled, n_updates, n_turns, issued, turns, loop, elvars, kbvars>>

GetActiveSessionsCount ==
    /\ ret' = StoreCall("get_active_sessions_count", 0, <<>>, get_active_sessions_count(sessions))
    /\ opening' = FALSE
    /\ UNCHANGED <<sessions, now, api_schemes, ai_enabled, n_updates, n_turns, issued, turns, loop, elvars, kbvars>>

\* one of the engine's methods called on a stored session
SessionCall(sid) ==
    /\ sid \in DOMAIN sessions
    /\ n_updates < MaxUpdates
    /\ n_updates' = n_updates + 1
    /\ \E call \in SessionCalls : \E r \in {apply_call(sessions[sid], call, now)} :
          /\ sessions' = [sessions EXCEPT ![sid] = r.state]
          /\ ret' = StoreCall(call.op, sid, call.args, r.value)
    /\ opening' = FALSE
    /\ UNCHANGED <<now, api_schemes, ai_enabled, n_turns, issued, turns, loop, elvars, kbvars>>

\* the engine class loaded, no session started
InitStore ==
    /\ NoEligibility
    /\ NoConversation

NextStore ==
    \/ Tick
    \/ StartConversation
    \/ GetActiveSessionsCount
    \/ CleanupExpiredSessions
    \/ \E sid \in SessionIds :
          \/ GetSession(sid)
          \/ EndConversation(sid)
          \/ SessionCall(sid)

SpecStore == InitStore /\ [][NextStore]_vars

(***************************************************************************)
(* Requests to send_message in flight on one session                       *)
(*                                                                         *)
(* The handler is a coroutine (async def) on the server's event loop: once *)
(* the loop has started it, the loop runs nothing else until the handler   *)
(* awaits or returns. A request's position is the statement of the handler *)
(* it has reached; the handler's local "state" is the stored session       *)
(* object itself, so each statement reads and writes sessions[1].          *)
(***************************************************************************)
MaxRequests == 2

\* as if the handler awaited the assistant's extract_user_info
awaits_extraction(at) == at = "added"

\* whether the handler awaits once it has reached position at: its body has
\* no await (the assistant's calls are plain calls)
awaits(at) == FALSE

\* the event loop after request r reached position at
after_step(r, at) == IF at = "done" \/ awaits(at) THEN 0 ELSE r

\* request r can take its step from position at: it holds the event loop, or
\* the loop is free and r awaits there
resumes(r, at) ==
    /\ r \in DOMAIN turns
    /\ turns[r].pc = at
    /\ loop = r \/ (loop = 0 /\ awaits(at))

NoDecision ==
    [evaluated |-> FALSE, response_text |-> None, next_question |-> None,
     eligible_schemes_data |-> None]

\* the local variables "Determine response" leaves
decision(d) ==
    [evaluated |-> d.evaluated, response_text |-> d.response_text,
     next_question |-> d.next_question,
     eligible_schemes_data |-> d.eligible_schemes_data]

\* the loop starts the handler for a new request: "Get session"
ReceiveMessage ==
    /\ loop = 0
    /\ Len(turns) < MaxRequests
    /\ \E message \in Messages, found \in {get_session(sessions, 1, now)} :
         \E at \in {IF found.state = None THEN "done" ELSE "found"} :
            /\ sessions' = found.store
            /\ turns' = Append(turns,
                          [pc |-> at, message |-> message, before |-> found.state,
                           ai |-> NoExtraction, ai_explanation |-> <<>>,
                           d |-> NoDecision,
                           response |-> IF at = "done" THEN NotFound ELSE None])
            /\ loop' = after_step(Len(turns) + 1, at)
    /\ UNCHANGED <<now, api_schemes, ai_enabled, ret, opening, n_updates, n_turns,
                   issued, elvars, kbvars>>

\* "Add user message"
TurnAddsMessage(r) ==
    /\ resumes(r, "found")
    /\ sessions' = [sessions EXCEPT ![1] = add_user_message(@, turns[r].message, now)]
    /\ turns' = [turns EXCEPT ![r].pc = "added"]
    /\ loop' = after_step(r, "added")
    /\ UNCHANGED <<now, api_schemes, ai_enabled, ret, opening, n_updates, n_turns,
                   issued, elvars, kbvars>>

\* extract_user_info and the profile update, from the AI data or rule-based
TurnExtracts(r) ==
    /\ resumes(r, "added")
    /\ \E ai \in IF ai_enabled THEN AIExtractions ELSE {NoExtraction} :
          /\ sessions' = [sessions EXCEPT
                            ![1] = extract_turn(@, turns[r].message, ai, now)]
          /\ turns' = [turns EXCEPT ![r].pc = "extracted", ![r].ai = ai]
    /\ loop' = after_step(r, "extracted")
    /\ UNCHANGED <<now, api_schemes, ai_enabled, ret, opening, n_updates, n_turns,
                   issued, elvars, kbvars>>

\* "Determine response": the evaluation or get_next_question
TurnDetermines(r) ==
    /\ resumes(r, "extracted")
    /\ \E plain \in {determine_response(sessions[1], [i \in 1..3 |-> None],
                                        api_schemes, now)} :
       \E shown \in {IF plain.eligible_schemes_data = None THEN 0
                     ELSE Len(Val(plain.eligible_schemes_data))} :
       \E ai_explanation \in
              [1..shown -> IF ai_enabled THEN {None, Some("ai_text")} ELSE {None}] :
       \E d \in {determine_response(sessions[1], ai_explanation, api_schemes, now)} :
          /\ sessions' = [sessions EXCEPT ![1] = d.state]
          /\ turns' = [turns EXCEPT ![r].pc = "determined", ![r].d = decision(d),
                                    ![r].ai_explanation = ai_explanation]
    /\ loop' = after_step(r, "determined")
    /\ UNCHANGED <<now, api_schemes, ai_enabled, ret, opening, n_updates, n_turns,
                   issued, elvars, kbvars>>

\* "Add assistant response" and the return of the SendMessageResponse
TurnAnswers(r) ==
    /\ resumes(r, "determined")
    /\ \E answered \in {add_assistant_message(sessions[1],
                                              turns[r].d.response_text, now)} :
       \E out \in {send_message_response(answered, turns[r].d)} :
          /\ sessions' = [sessions EXCEPT ![1] = answered]
          /\ turns' = [turns EXCEPT ![r].pc = "done",
                                    ![r].response = Some(out.response)]
    /\ loop' = after_step(r, "done")
    /\ UNCHANGED <<now, api_schemes, ai_enabled, ret, opening, n_updates, n_turns,
                   issued, elvars, kbvars>>

InitRequests == InitTurn

NextRequests ==
    \/ ReceiveMessage
    \/ \E r \in 1..MaxRequests :
          \/ TurnAddsMessage(r)
          \/ TurnExtracts(r)
          \/ TurnDetermines(r)
          \/ TurnAnswers(r)

SpecRequests == InitRequests /\ [][NextRequests]_vars

(***************************************************************************)
(* Calls on the session store in flight                                    *)
(*                                                                         *)
(* The store's methods are plain functions. Their callers are the          *)
(* coroutines of the API on the one event-loop thread; nothing in the      *)
(* program starts a thread. A call in flight is at one of its statements;  *)
(* turns holds the calls, loop the call that is running.                   *)
(***************************************************************************)
\* as if callers ran on threads: another caller can run between any two
\* statements
switches_anywhere(at) == TRUE

\* whether another caller can run once a call has reached position at
switches(at) == FALSE

\* the running call after call r reached position at
after_statement(r, at) == IF at = "returned" \/ at = "raised" \/ switches(at) THEN 0 ELSE r

\* call r can execute its statement at position at
executes(r, at) ==
    /\ r \in DOMAIN turns
    /\ turns[r].pc = at
    /\ loop = r \/ (loop = 0 /\ switches(at))

RECURSIVE ascending(_)
\* the keys of a dict in insertion order: ids are stored in the order issued
ascending(S) == IF S = {} THEN <<>> ELSE <<MinOf(S)>> \o ascending(S \ {MinOf(S)})

\* the store's methods and the first statement of each
StoreOps ==
    {[op |-> "start_conversation", pc |-> "store"],
     [op |-> "get_session", pc |-> "get"],
     [op |-> "end_conversation", pc |-> "test"],
     [op |-> "cleanup_expired_sessions", pc |-> "collect"]}

\* a caller calls one of the store's methods
CallStarts ==
    /\ loop = 0
    /\ Len(turns) < MaxRequests
    /\ \E call \in StoreOps, sid \in SessionIds :
          /\ call.op = "start_conversation" => Cardinality(issued) < MaxSessions /\ sid = 1
          /\ call.op = "cleanup_expired_sessions" => sid = 1
          /\ turns' = Append(turns, [op |-> call.op, sid |-> sid, pc |-> call.pc,
                                     local |-> <<>>, i |-> 1, removed |-> {},
                                     value |-> None])
          /\ loop' = Len(turns) + 1
    /\ UNCHANGED <<sessions, now, api_schemes, ai_enabled, ret, opening, n_updates,
                   n_turns, issued, elvars, kbvars>>

\* start_conversation: uuid4, the new state, self._sessions[session_id] = state
StartStores(r) ==
    /\ executes(r, "store")
    /\ \E session_id \in {uuid4(issued)} :
          /\ issued' = issued \cup {session_id}
          /\ sessions' = store_session(sessions, session_id,
                            [start_conversation("en", session_id, now)
                                EXCEPT !.conversation_history = <<>>])
          /\ turns' = [turns EXCEPT ![r].pc = "greet", ![r].sid = session_id]
    /\ loop' = after_statement(r, "greet")
    /\ UNCHANGED <<now, api_schemes, ai_enabled, ret, opening, n_updates, n_turns, elvars, kbvars>>

\* start_conversation: the greeting is appended to the stored state; return
StartGreets(r) ==
    /\ executes(r, "greet")
    /\ IF turns[r].sid \in DOMAIN sessions
       THEN sessions' = [sessions EXCEPT ![turns[r].sid] =
                            add_assistant_message(@, GREETINGS_get(@.language), now)]
       ELSE UNCHANGED sessions
    /\ turns' = [turns EXCEPT ![r].pc = "returned", ![r].value = Some(turns[r].sid)]
    /\ loop' = after_statement(r, "returned")
    /\ UNCHANGED <<now, api_schemes, ai_enabled, ret, opening, n_updates, n_turns,
                   issued, elvars, kbvars>>

\* get_session: state = self._sessions.get(session_id); if not state: return None
GetLooksUp(r) ==
    /\ executes(r, "get")
    /\ \E at \in {IF turns[r].sid \in DOMAIN sessions THEN "check" ELSE "returned"} :
          /\ turns' = [turns EXCEPT ![r].pc = at,
                          ![r].local = IF at = "check"
                                       THEN <<sessions[turns[r].sid].last_activity>>
                                       ELSE <<>>]
          /\ loop' = after_statement(r, at)
    /\ UNCHANGED <<sessions, now, api_schemes, ai_enabled, ret, opening, n_updates,
                   n_turns, issued, elvars, kbvars>>

\* get_session: the expiry test on the state it holds; an expired session
\* goes to end_conversation, otherwise the state is returned
GetChecksExpiry(r) ==
    /\ executes(r, "check")
    /\ \E at \in {IF now - turns[r].local[1] > SESSION_TIMEOUT
                  THEN "test" ELSE "returned"} :
          /\ turns' = [turns EXCEPT ![r].pc = at,
                          ![r].value = IF at = "returned" THEN Some(turns[r].sid)
                                       ELSE None]
          /\ loop' = after_statement(r, at)
    /\ UNCHANGED <<sessions, now, api_schemes, ai_enabled, ret, opening, n_updates,
                   n_turns, issued, elvars, kbvars>>

\* what the method of call r returns when its end_conversation returns found:
\* get_session drops it and returns None
end_value(r, found) == IF turns[r].op = "end_conversation" THEN Some(found) ELSE None

\* end_conversation: if session_id in self._sessions
EndTests(r) ==
    /\ executes(r, "test")
    /\ \E at \in {IF turns[r].sid \in DOMAIN sessions THEN "del" ELSE "returned"} :
          /\ turns' = [turns EXCEPT ![r].pc = at,
                          ![r].value = IF at = "returned" THEN end_value(r, FALSE)
                                       ELSE None]
          /\ loop' = after_statement(r, at)
    /\ UNCHANGED <<sessions, now, api_schemes, ai_enabled, ret, opening, n_updates,
                   n_turns, issued, elvars, kbvars>>

\* end_conversation: del self._sessions[session_id]; return True. Deleting a
\* key that is not there raises KeyError.
EndDeletes(r) ==
    /\ executes(r, "del")
    /\ IF turns[r].sid \in DOMAIN sessions
       THEN /\ sessions' = del(sessions, turns[r].sid)
            /\ turns' = [turns EXCEPT ![r].pc = "returned",
                            ![r].removed = {turns[r].sid},
                            ![r].value = end_value(r, TRUE)]
            /\ loop' = after_statement(r, "returned")
       ELSE /\ UNCHANGED sessions
            /\ turns' = [turns EXCEPT ![r].pc = "raised"]
            /\ loop' = after_statement(r, "raised")
    /\ UNCHANGED <<now, api_schemes, ai_enabled, ret, opening, n_updates, n_turns,
                   issued, elvars, kbvars>>

\* cleanup_expired_sessions: now = datetime.now() and the list of expired ids
SweepCollects(r) ==
    /\ executes(r, "collect")
    /\ turns' = [turns EXCEPT ![r].pc = "sweep",
                    ![r].local = ascending({sid \in DOMAIN sessions :
                                               is_expired(sessions[sid], now)})]
    /\ loop' = after_statement(r, "sweep")
    /\ UNCHANGED <<sessions, now, api_schemes, ai_enabled, ret, opening, n_updates,
                   n_turns, issued, elvars, kbvars>>

\* cleanup_expired_sessions: one round of "for sid in expired: del", or
\* return len(expired) after the last; i is the round
SweepDeletes(r) ==
    /\ executes(r, "sweep")
    /\ IF turns[r].i > Len(turns[r].local)
       THEN /\ UNCHANGED sessions
            /\ turns' = [turns EXCEPT ![r].pc = "returned",
                            ![r].value = Some(Len(turns[r].local))]
            /\ loop' = after_statement(r, "returned")
       ELSE IF turns[r].local[turns[r].i] \in DOMAIN sessions
            THEN /\ sessions' = del(sessions, turns[r].local[turns[r].i])
                 /\ turns' = [turns EXCEPT ![r].i = @ + 1,
                                 ![r].removed = @ \cup {turns[r].local[turns[r].i]}]
                 /\ loop' = after_statement(r, "sweep")
            ELSE /\ UNCHANGED sessions
                 /\ turns' = [turns EXCEPT ![r].pc = "raised"]
                 /\ loop' = after_statement(r, "raised")
    /\ UNCHANGED <<now, api_schemes, ai_enabled, ret, opening, n_updates, n_turns,
                   issued, elvars, kbvars>>

\* the engine class loaded and one session stored
InitCallers ==
    /\ NoEligibility
    /\ now = 0
    /\ sessions = (1 :> start_conversation("en", 1, 0))
    /\ api_schemes = <<>>
    /\ ai_enabled = FALSE
    /\ ret = [op |-> "start_conversation"]
    /\ opening = FALSE
    /\ n_updates = 0
    /\ n_turns = 0
    /\ issued = {1}
    /\ turns = <<>>
    /\ loop = 0

NextCallers ==
    \/ Tick
    \/ CallStarts
    \/ \E r \in 1..MaxRequests :
          \/ StartStores(r)
          \/ StartGreets(r)
          \/ GetLooksUp(r)
          \/ GetChecksExpiry(r)
          \/ EndTests(r)
          \/ EndDeletes(r)
          \/ SweepCollects(r)
          \/ SweepDeletes(r)

SpecCallers == InitCallers /\ [][NextCallers]_vars

(***************************************************************************)
(* KnowledgeBase (app/services/knowledge_base.py)                          *)
(*                                                                         *)
(* An instance is its entry list (self.schemes) and its vector index       *)
(* (self.index), the sequence of the vectors added. A text is named by     *)
(* what it was made from; the embedding model gives every text a vector,   *)
(* here a point with integer coordinates. Labels returned by a search are  *)
(* positions counted from 0, as in Python.                                 *)
(***************************************************************************)
\* name, description and benefits joined: the text of a scheme
create_searchable_text(scheme) == [text |-> "scheme", of |-> scheme.id]

\* the query texts of this development
Queries ==
    {[text |-> "query", of |-> "skills for young people"],
     [text |-> "query", of |-> "support for women"]}

\* self.model.encode: the vector of a text
encode(text) ==
    CASE text = [text |-> "scheme", of |-> "open"]        -> <<0, 0>>
      [] text = [text |-> "scheme", of |-> "youth"]       -> <<3, 0>>
      [] text = [text |-> "scheme", of |-> "women"]       -> <<0, 3>>
      [] text = [text |-> "scheme", of |-> "state_youth"] -> <<3, 1>>
      [] text = [text |-> "query", of |-> "skills for young people"] -> <<2, 0>>
      [] text = [text |-> "query", of |-> "support for women"]       -> <<0, 2>>

\* faiss.IndexFlatL2(self.embedding_dim): no vector
IndexFlatL2 == <<>>

\* the index a complete build over schemes holds: one vector per entry, in order
embeddings(schemes) == [i \in DOMAIN schemes |-> encode(create_searchable_text(schemes[i]))]

\* mutant: the list is stored before it is tested
index_schemes_stores_first(kb, schemes, encodes) ==
    IF schemes = <<>>
    THEN [kb |-> [kb EXCEPT !.schemes = schemes], raised |-> Some("ValueError")]
    ELSE IF ~encodes
         THEN [kb |-> [kb EXCEPT !.schemes = schemes], raised |-> Some("encode")]
         ELSE [kb |-> [schemes |-> schemes, index |-> embeddings(schemes)],
               raised |-> None]

\* mutant: the new vectors are added to the index that is there
index_schemes_adds(kb, schemes, encodes) ==
    IF schemes = <<>> THEN [kb |-> kb, raised |-> Some("ValueError")]
    ELSE IF ~encodes
         THEN [kb |-> [kb EXCEPT !.schemes = schemes], raised |-> Some("encode")]
         ELSE [kb |-> [schemes |-> schemes, index |-> kb.index \o embeddings(schemes)],
               raised |-> None]

\* index_schemes: the instance it leaves and what it raised. encodes tells
\* whether the embedding model returned the vectors or raised.
index_schemes(kb, schemes, encodes) ==
    IF schemes = <<>> THEN [kb |-> kb, raised |-> Some("ValueError")]
    ELSE IF ~encodes
         THEN [kb |-> [kb EXCEPT !.schemes = schemes], raised |-> Some("encode")]
         ELSE [kb |-> [schemes |-> schemes, index |-> embeddings(schemes)],
               raised |-> None]

\* the squared L2 distance IndexFlatL2 reports
l2(u, v) == (u[1] - v[1]) * (u[1] - v[1]) + (u[2] - v[2]) * (u[2] - v[2])

\* the distance reported with the label -1 of a missing neighbour: the
\* largest float
FLT_MAX == [float |-> "max"]

RECURSIVE nearest(_, _, _, _)
\* the k nearest of the labels in left, ascending in distance; when fewer
\* than k are left the rest is filled with label -1
nearest(index, q, left, k) ==
    IF k = 0 THEN <<>>
    ELSE IF left = {} THEN <<[label |-> -1, distance |-> FLT_MAX]>> \o nearest(index, q, left, k - 1)
    ELSE LET best == CHOOSE i \in left :
                        \A j \in left :
                           \/ l2(index[i + 1], q) < l2(index[j + 1], q)
                           \/ l2(index[i + 1], q) = l2(index[j + 1], q) /\ i <= j
         IN <<[label |-> best, distance |-> l2(index[best + 1], q)]>>
               \o nearest(index, q, left \ {best}, k - 1)

\* self.index.search(query_embedding, k)
search(index, q, k) == nearest(index, q, {i - 1 : i \in DOMAIN index}, k)

\* self.schemes[idx], a negative idx counting from the end
subscript(schemes, idx) == IF idx >= 0 THEN schemes[idx + 1] ELSE schemes[Len(schemes) + idx + 1]

\* 1.0 / (1.0 + distance) for a search hit, as numerator and denominator; the
\* largest float, reported with label -1, gives 0.0
similarity(hit) == IF hit.label = -1 THEN <<0, 1>> ELSE <<1, 1 + hit.distance>>

\* _matches_filters; filters is a dict, a function from keys to values
matches_filters(scheme, filters) ==
    \A key \in DOMAIN filters :
       CASE key = "state" ->
               ~(/\ scheme.eligibility.states # None
                 /\ Val(scheme.eligibility.states) # {}
                 /\ filters[key] \notin Val(scheme.eligibility.states))
         [] key = "min_age" ->
               ~(/\ scheme.eligibility.min_age # None
                 /\ Val(scheme.eligibility.min_age) # 0
                 /\ Val(scheme.eligibility.min_age) > filters[key])
         [] key = "max_age" ->
               ~(/\ scheme.eligibility.max_age # None
                 /\ Val(scheme.eligibility.max_age) # 0
                 /\ Val(scheme.eligibility.max_age) < filters[key])
         [] OTHER -> TRUE

\* the loop over the search result: labels not below len(self.schemes) are
\* skipped, filtered entries are skipped, the loop ends at top_k results
RECURSIVE collect(_, _, _, _, _)
collect(schemes, found, filters, top_k, results) ==
    IF found = <<>> THEN results
    ELSE LET hit == Head(found)
         IN IF hit.label < Len(schemes)
            THEN IF filters # None /\ DOMAIN Val(filters) # {}
                    /\ ~matches_filters(subscript(schemes, hit.label), Val(filters))
                 THEN collect(schemes, Tail(found), filters, top_k, results)
                 ELSE IF Len(results) + 1 >= top_k
                      THEN Append(results, [scheme |-> subscript(schemes, hit.label),
                                            similarity |-> similarity(hit)])
                      ELSE collect(schemes, Tail(found), filters, top_k,
                                   Append(results, [scheme |-> subscript(schemes, hit.label),
                                                    similarity |-> similarity(hit)]))
            ELSE collect(schemes, Tail(found), filters, top_k, results)

\* mutant: the search asks for top_k neighbours only
fetch_top_k(top_k, schemes) == IF top_k < Len(schemes) THEN top_k ELSE Len(schemes)

\* min(top_k * 2, len(self.schemes))
fetch(top_k, schemes) == IF top_k * 2 < Len(schemes) THEN top_k * 2 ELSE Len(schemes)

\* retrieve_schemes
retrieve_schemes(kb, query, top_k, filters) ==
    IF kb.schemes = <<>> THEN <<>>
    ELSE collect(kb.schemes, search(kb.index, encode(query), fetch(top_k, kb.schemes)),
                 filters, top_k, <<>>)

\* faiss.write_index: the file holds the vectors
write_index(index) == [format |-> "faiss", ntotal |-> Len(index), codes |-> index]

\* pickle.dump: the file holds the objects
pickle_dump(schemes) == [format |-> "pickle", objects |-> schemes]

\* a file that is there but is not what was written
Garbage == [format |-> "garbage"]

\* what faiss.read_index raises: it returns the index only from a file that
\* write_index wrote
read_index_raises(file) ==
    IF file # None /\ Val(file).format = "faiss" THEN None ELSE Some("RuntimeError")

\* what open(..., "rb") and pickle.load raise
pickle_load_raises(file) ==
    IF file = None THEN Some("FileNotFoundError")
    ELSE IF Val(file).format = "pickle" THEN None ELSE Some("UnpicklingError")

\* mutant: except FileNotFoundError only
caught_if_file_not_found(exc) == exc = "FileNotFoundError"

\* the errors above are subclasses of Exception
Exceptions == {"RuntimeError", "UnpicklingError", "FileNotFoundError"}

\* except (FileNotFoundError, Exception)
caught(exc) == exc = "FileNotFoundError" \/ exc \in Exceptions

\* the end of load_index when its try block raised exc: return False when
\* the except clause catches it
load_failed(kb, exc) ==
    IF caught(exc) THEN [kb |-> kb, value |-> Some(FALSE), raised |-> None]
    ELSE [kb |-> kb, value |-> None, raised |-> Some(exc)]

\* mutant: the entry list is not written
save_index_index_only(kb, files) == [files EXCEPT !.faiss = Some(write_index(kb.index))]

\* save_index: the files it leaves
save_index(kb, files) ==
    [files EXCEPT !.faiss = Some(write_index(kb.index)),
                  !.pkl = Some(pickle_dump(kb.schemes))]

\* load_index: the instance it leaves, the value it returns, what it raises
load_index(kb, files) ==
    IF read_index_raises(files.faiss) # None
    THEN load_failed(kb, Val(read_index_raises(files.faiss)))
    ELSE IF pickle_load_raises(files.pkl) # None
         THEN load_failed([kb EXCEPT !.index = Val(files.faiss).codes],
                          Val(pickle_load_raises(files.pkl)))
         ELSE [kb |-> [schemes |-> Val(files.pkl).objects,
                       index |-> Val(files.faiss).codes],
               value |-> Some(TRUE), raised |-> None]

(***************************************************************************)
(* Two KnowledgeBase instances on one index_path                           *)
(***************************************************************************)
MaxTopK == 2

\* the lists index_schemes is called with
KbCatalogs ==
    {<<>>,
     <<Scheme_youth>>,
     <<Scheme_open, Scheme_state_youth, Scheme_women, Scheme_youth>>}

\* the filters a query is made with
KbFilters ==
    {None, Some([k \in {"state"} |-> "Delhi"]), Some([k \in {"min_age"} |-> 10])}

\* instance 1 is the one the schemes are indexed into and saved from;
\* instance 2 is a fresh one that loads what is on disk
Builder == 1

\* a call on instance i: its arguments, the instance as the call found it,
\* what it raised and what it returned
KbCall(op, i, args, raised, value) ==
    [op |-> op, instance |-> i, args |-> args, before |-> kbs[i],
     raised |-> raised, value |-> value]

IndexSchemes(i) ==
    /\ \E schemes \in KbCatalogs, encodes \in BOOLEAN :
       \E r \in {index_schemes(kbs[i], schemes, encodes)} :
          /\ kbs' = [kbs EXCEPT ![i] = r.kb]
          /\ kb_ret' = KbCall("index_schemes", i, schemes, r.raised, None)
    /\ UNCHANGED <<disk, sessions, now, api_schemes, ai_enabled, ret, opening, n_updates,
                   n_turns, issued, turns, loop, elvars>>

RetrieveSchemes(i) ==
    /\ \E query \in Queries, top_k \in 1..MaxTopK, filters \in KbFilters :
          kb_ret' = KbCall("retrieve_schemes", i,
                           [query |-> query, top_k |-> top_k, filters |-> filters],
                           None, Some(retrieve_schemes(kbs[i], query, top_k, filters)))
    /\ UNCHANGED <<kbs, disk, sessions, now, api_schemes, ai_enabled, ret, opening,
                   n_updates, n_turns, issued, turns, loop, elvars>>

SaveIndex(i) ==
    /\ disk' = save_index(kbs[i], disk)
    /\ kb_ret' = KbCall("save_index", i, <<>>, None, None)
    /\ UNCHANGED <<kbs, sessions, now, api_schemes, ai_enabled, ret, opening, n_updates,
                   n_turns, issued, turns, loop, elvars>>

LoadIndex(i) ==
    /\ \E r \in {load_index(kbs[i], disk)} :
          /\ kbs' = [kbs EXCEPT ![i] = r.kb]
          /\ kb_ret' = KbCall("load_index", i, <<>>, r.raised, r.value)
    /\ UNCHANGED <<disk, sessions, now, api_schemes, ai_enabled, ret, opening, n_updates,
                   n_turns, issued, turns, loop, elvars>>

\* one of the two files is removed or overwritten by something else
DamageFile ==
    /\ \E f \in {"faiss", "pkl"}, left \in {None, Some(Garbage)} :
          /\ disk[f] # None
          /\ disk' = [disk EXCEPT ![f] = left]
          /\ kb_ret' = [op |-> "damage", file |-> f]
    /\ UNCHANGED <<kbs, sessions, now, api_schemes, ai_enabled, ret, opening, n_updates,
                   n_turns, issued, turns, loop, elvars>>

InitKB ==
    /\ NoEligibility
    /\ NoConversation

NextKB ==
    \/ DamageFile
    \/ IndexSchemes(Builder)
    \/ SaveIndex(Builder)
    \/ \E i \in Instances :
          \/ RetrieveSchemes(i)
          \/ LoadIndex(i)

SpecKB == InitKB /\ [][NextKB]_vars

(***************************************************************************)
(* Claims about the eligibility engine                                     *)
(***************************************************************************)
Families == {"age", "state", "education", "income", "category", "gender", "occupation"}

Range(seq) == {seq[i] : i \in DOMAIN seq}

\* the rule set carries a constraint on family f
Constrained(e, f) ==
    CASE f = "age"        -> e.min_age # None \/ e.max_age # None
      [] f = "state"      -> e.states # None
      [] f = "education"  -> e.education_levels # None
      [] f = "income"     -> e.income_max # None
      [] f = "category"   -> e.categories # None
      [] f = "gender"     -> e.gender # None
      [] f = "occupation" -> e.occupations # None

\* the profile field of family f
FieldOf(p, f) ==
    CASE f = "age"        -> p.age
      [] f = "state"      -> p.state
      [] f = "education"  -> p.education_level
      [] f = "income"     -> p.income_range
      [] f = "category"   -> p.category
      [] f = "gender"     -> p.gender
      [] f = "occupation" -> p.occupation

WithField(p, f, v) ==
    CASE f = "age"        -> [p EXCEPT !.age = v]
      [] f = "state"      -> [p EXCEPT !.state = v]
      [] f = "education"  -> [p EXCEPT !.education_level = v]
      [] f = "income"     -> [p EXCEPT !.income_range = v]
      [] f = "category"   -> [p EXCEPT !.category = v]
      [] f = "gender"     -> [p EXCEPT !.gender = v]
      [] f = "occupation" -> [p EXCEPT !.occupation = v]

\* values a profile field of family f is varied over
OtherValues(f) ==
    CASE f = "age"        -> OptOf({0, 25, 70})
      [] f = "state"      -> OptOf({"Maharashtra", "Delhi"})
      [] f = "education"  -> OptOf({"graduate", "10th_pass"})
      [] f = "income"     -> OptOf({"below_1lakh", "above_8lakh"})
      [] f = "category"   -> OptOf({"sc", "general"})
      [] f = "gender"     -> OptOf({"female", "male"})
      [] f = "occupation" -> OptOf({"student", "farmer"})

\* the bracket ceilings as the specification lists them; the top bracket has none
CeilingWithin(bracket, limit) ==
    \/ bracket = "below_1lakh" /\ 100000 <= limit
    \/ bracket = "1-3lakh" /\ 300000 <= limit
    \/ bracket = "3-5lakh" /\ 500000 <= limit
    \/ bracket = "5-8lakh" /\ 800000 <= limit

\* the profile's value of family f (which is set) satisfies the constraint on f
Satisfies(p, e, f) ==
    CASE f = "age"        -> /\ e.min_age # None => Val(p.age) >= Val(e.min_age)
                             /\ e.max_age # None => Val(p.age) <= Val(e.max_age)
      [] f = "state"      -> Val(p.state) \in Val(e.states)
      [] f = "education"  -> Val(p.education_level) \in Val(e.education_levels)
      [] f = "income"     -> CeilingWithin(Val(p.income_range), Val(e.income_max))
      [] f = "category"   -> Val(p.category) \in Val(e.categories)
      [] f = "gender"     -> Val(p.gender) = Val(e.gender)
      [] f = "occupation" -> Val(p.occupation) \in Val(e.occupations)

Mentions(list, f) == \E i \in DOMAIN list : list[i].family = f

\* C1: check_single_scheme is eligible iff every constrained family has a profile
\* value that satisfies its constraint; a constrained family whose value is unset
\* makes the verdict ineligible and is listed as unsatisfied; an unconstrained
\* family appears in neither list and its profile value changes neither the
\* verdict nor the lists.
C1_VerdictIffAllConstrainedSatisfied ==
    pc = "checked" =>
        LET r == Val(el_result)
            p == el_profile
            e == el_scheme.eligibility
        IN /\ r.is_eligible <=>
                \A f \in Families :
                    Constrained(e, f) => FieldOf(p, f) # None /\ Satisfies(p, e, f)
           /\ \A f \in Families :
                Constrained(e, f) /\ FieldOf(p, f) = None =>
                    ~r.is_eligible /\ Mentions(r.missing_criteria, f)
           /\ \A f \in Families :
                ~Constrained(e, f) =>
                    /\ ~Mentions(r.matching_criteria, f)
                    /\ ~Mentions(r.missing_criteria, f)
                    /\ \A v \in OtherValues(f) :
                        LET q == check_single_scheme(WithField(p, f, v), el_scheme)
                        IN /\ q.is_eligible = r.is_eligible
                           /\ q.matching_criteria = r.matching_criteria
                           /\ q.missing_criteria = r.missing_criteria

\* a check where one constrained family is unset, one is satisfied, one is failed
\* and an unconstrained family has a value
C1_Witness ==
    /\ pc = "checked"
    /\ LET p == el_profile
           e == el_scheme.eligibility
       IN /\ \E f \in Families : Constrained(e, f) /\ FieldOf(p, f) = None
          /\ \E f \in Families :
                Constrained(e, f) /\ FieldOf(p, f) # None /\ Satisfies(p, e, f)
          /\ \E f \in Families :
                Constrained(e, f) /\ FieldOf(p, f) # None /\ ~Satisfies(p, e, f)
          /\ \E f \in Families : ~Constrained(e, f) /\ FieldOf(p, f) # None

\* C2: a rule set with no constraint gives, for every profile, an eligible
\* verdict with confidence 0.0 and empty satisfied and unsatisfied lists.
C2_NoConstraintEligibleZeroConfidence ==
    (pc = "checked" /\ \A f \in Families : ~Constrained(el_scheme.eligibility, f)) =>
        LET r == Val(el_result)
        IN /\ r.is_eligible
           /\ r.confidence[1] = 0
           /\ r.confidence[2] # 0
           /\ r.matching_criteria = <<>>
           /\ r.missing_criteria = <<>>

\* the unconstrained rule set checked against the profile with every field unset
C2_Witness ==
    /\ pc = "checked"
    /\ \A f \in Families : ~Constrained(el_scheme.eligibility, f)
    /\ \A f \in Families : FieldOf(el_profile, f) = None

\* the results of the input entries, in input order
InputResults == [i \in DOMAIN el_schemes |-> check_single_scheme(el_profile, el_schemes[i])]

Count(seq, x) == Cardinality({i \in DOMAIN seq : seq[i] = x})

\* the returned results are those of the eligible input entries, each as often
\* as the entry occurs in the input
ExactlyTheEligible ==
    pc = "determined" =>
        LET rs == Val(el_results)
        IN /\ \A i \in DOMAIN rs : rs[i].is_eligible
           /\ \A i \in DOMAIN el_schemes :
                LET r == InputResults[i]
                IN Count(rs, r) = IF r.is_eligible THEN Count(InputResults, r) ELSE 0
           /\ \A i \in DOMAIN rs : rs[i] \in Range(InputResults)

\* a catalog with an eligible and an ineligible entry
C3_Witness ==
    /\ pc = "determined"
    /\ \E i \in DOMAIN el_schemes : InputResults[i].is_eligible
    /\ \E i \in DOMAIN el_schemes : ~InputResults[i].is_eligible
    /\ Val(el_results) # <<>>

\* C3: determine_eligibility returns a result for exactly the input entries whose
\* verdict is eligible (none ineligible, none omitted), and leaves the input
\* catalog list as it was.
C3_ExactlyTheEligible ==
    /\ []ExactlyTheEligible
    /\ [][DetermineEligibility => el_schemes' = el_schemes]_vars

\* C4: the returned list is sorted by non-increasing count of satisfied
\* constraints, and entries with equal counts keep their input order.
C4_SortedStable ==
    pc = "determined" =>
        LET rs == Val(el_results)
            EligibleWith(k) ==
                LET Test(r) == r.is_eligible /\ Len(r.matching_criteria) = k
                IN SelectSeq(InputResults, Test)
            ReturnedWith(k) ==
                LET Test(r) == Len(r.matching_criteria) = k
                IN SelectSeq(rs, Test)
        IN /\ \A i, j \in DOMAIN rs :
                i < j => Len(rs[i].matching_criteria) >= Len(rs[j].matching_criteria)
           /\ \A k \in 0..7 : ReturnedWith(k) = EligibleWith(k)

\* the sort moved an entry forward and kept two different equal-count entries
C4_Witness ==
    /\ pc = "determined"
    /\ LET rs == Val(el_results)
       IN /\ Len(rs) = 3
          /\ \E i, j \in DOMAIN rs :
                /\ i < j
                /\ rs[i].scheme # rs[j].scheme
                /\ Len(rs[i].matching_criteria) = Len(rs[j].matching_criteria)
          /\ \E i, j \in DOMAIN el_schemes :
                /\ i < j
                /\ InputResults[i].is_eligible /\ InputResults[j].is_eligible
                /\ Len(InputResults[i].matching_criteria)
                     < Len(InputResults[j].matching_criteria)

\* C5: the income constraint is satisfied iff the bracket's ceiling is at most
\* income_max (100000, 300000, 500000, 800000, unbounded); the top bracket
\* fails every income_max.
C5_IncomeCeiling ==
    (/\ pc = "checked"
     /\ el_scheme.eligibility.income_max # None
     /\ el_profile.income_range # None
     /\ Val(el_profile.income_range) \in
            {"below_1lakh", "1-3lakh", "3-5lakh", "5-8lakh", "above_8lakh"}) =>
        LET r == Val(el_result)
            b == Val(el_profile.income_range)
            c == Val(el_scheme.eligibility.income_max)
        IN /\ Mentions(r.matching_criteria, "income") <=> CeilingWithin(b, c)
           /\ Mentions(r.missing_criteria, "income") <=> ~CeilingWithin(b, c)
           /\ ~CeilingWithin(b, c) => ~r.is_eligible
           /\ b = "above_8lakh" => Mentions(r.missing_criteria, "income")

\* a bracket whose ceiling equals income_max passes, and the top bracket is checked
C5_Witness ==
    /\ pc = "checked"
    /\ el_profile.income_range = Some("5-8lakh")
    /\ el_scheme.eligibility.income_max = Some(800000)
    /\ Mentions(Val(el_result).matching_criteria, "income")

(***************************************************************************)
(* Claims about the conversation engine                                    *)
(***************************************************************************)
\* the session the single-session specifications run on
TheSession == sessions[1]

\* the fixed priority order: age, region, education, income, category, gender, occupation
PriorityOrder ==
    <<"age", "state", "education_level", "income_range", "category", "gender", "occupation">>

\* the localized prompt for an attribute: Hindi for "hi", English otherwise
PromptFor(field, language) ==
    [text |-> "question", field |-> field, lang |-> IF language = "hi" THEN "hi" ELSE "en"]

\* during the opening run of get_next_question calls the asked list is the
\* priority order up to the number of prompts returned
OpeningRunAsksInOrder ==
    opening =>
        /\ TheSession.asked_questions
             = SubSeq(PriorityOrder, 1, Len(TheSession.asked_questions))
        /\ TheSession.user_profile = UserProfile

\* a get_next_question call of the opening run returns the prompt of the next
\* attribute in priority order and records it, and returns nothing once all
\* seven were asked
OpeningCallReturnsNextPrompt ==
    (opening /\ GetNextQuestion(1)) =>
        LET k == Len(TheSession.asked_questions)
            after == sessions'[1]
        IN IF k < 7
           THEN /\ ret'.value = Some(PromptFor(PriorityOrder[k + 1], TheSession.language))
                /\ after.asked_questions = Append(TheSession.asked_questions,
                                                  PriorityOrder[k + 1])
           ELSE /\ ret'.value = None
                /\ after.asked_questions = TheSession.asked_questions

\* C6: on a fresh session with no attribute ever set, seven successive
\* get_next_question calls return the prompts for age, region, education,
\* income, category, gender, occupation in that order, each name is recorded
\* in asked exactly once, and the eighth call returns no further prompt.
C6_SevenPromptsInOrder ==
    /\ []OpeningRunAsksInOrder
    /\ [][OpeningCallReturnsNextPrompt]_vars

\* the eighth call of the opening run has returned no prompt
C6_Witness ==
    /\ opening
    /\ ret.op = "get_next_question"
    /\ ret.value = None
    /\ TheSession.asked_questions = PriorityOrder

BothRequiredSet(state) == state.user_profile.age # None /\ state.user_profile.state # None

\* C7: is_information_complete is true iff age and region are both set, and a
\* step that leaves age and region as they are never changes its value.
C7_CompleteIffAgeAndRegion ==
    /\ [](/\ is_information_complete(TheSession) <=> BothRequiredSet(TheSession)
          /\ ret.op = "is_information_complete" =>
                (ret.value <=> BothRequiredSet(TheSession)))
    /\ [][(/\ sessions'[1].user_profile.age = TheSession.user_profile.age
           /\ sessions'[1].user_profile.state = TheSession.user_profile.state) =>
            is_information_complete(sessions'[1]) = is_information_complete(TheSession)]_vars

\* is_information_complete answered True with only age and region set, age being 0
C7_Witness ==
    /\ ret.op = "is_information_complete"
    /\ ret.value = TRUE
    /\ TheSession.user_profile.age = Some(0)
    /\ TheSession.user_profile.education_level = None
    /\ TheSession.user_profile.occupation = None

\* C8: transition_to_eligibility sets the stage to eligibility iff the
\* information is complete at the call; with age or region unset it leaves
\* the stage and the rest of the session unchanged.
C8_TransitionGuarded ==
    [][TransitionToEligibility(1) =>
        IF BothRequiredSet(TheSession)
        THEN sessions'[1].current_stage = "eligibility"
        ELSE sessions'[1] = TheSession]_vars

\* the transition was made from info_collection
C8_Witness ==
    /\ ret.op = "transition_to_eligibility"
    /\ TheSession.current_stage = "eligibility"
    /\ TheSession.asked_questions # <<>>

(***************************************************************************)
(* Claims about the send-message turn                                      *)
(***************************************************************************)
\* the last operation was a send-message turn that found its session
TurnDone == ret.op = "send_message" /\ ret.response.status = 200

\* no turn of the session has returned eligible entries before this one:
\* the only way into stage guidance is the turn that returns them
NoResultReturnedBefore == Val(ret.before).current_stage # "guidance"

\* C9: a send-message turn that leaves the profile complete (age and state
\* set) while no eligibility result has been returned for the session yet
\* calls determine_eligibility in that same turn, whichever stage the session
\* was in when the turn started, greeting as well as info_collection.
C9_CompleteTurnEvaluates ==
    (TurnDone /\ NoResultReturnedBefore /\ ret.response.information_complete)
        => ret.evaluated

\* C10: a send-message turn whose evaluation finds no eligible entry is not
\* an error: it answers normally, carries no eligible-entry list, and the
\* session's stage at its end is info_collection.
C10_NoneFoundIsNormal ==
    (TurnDone /\ ret.evaluated
        /\ determine_eligibility(TheSession.user_profile, api_schemes) = <<>>)
        => /\ ret.response.eligible_schemes = None
           /\ ret.response.stage = "info_collection"
           /\ TheSession.current_stage = "info_collection"

C10_Witness ==
    /\ TurnDone
    /\ ret.evaluated
    /\ ret.response.response = [text |-> "none_found"]
    /\ Val(ret.before).current_stage = "info_collection"
    /\ TheSession.user_profile.age = Some(50)

\* the step is a send-message turn: only SendMessage counts turns
TurnStep == n_turns' = n_turns + 1 /\ ret'.op = "send_message"

\* the optional attributes
OptionalFields == ProfileFields \ {"age", "state"}

\* the optional attributes of a session that are unset and not yet asked
PendingOptional(state) ==
    {f \in OptionalFields :
        getattr(state.user_profile, f) = None /\ f \notin SeqRange(state.asked_questions)}

\* the last operation was a turn whose evaluation found no eligible entry
NoneFoundTurn ==
    TurnDone /\ ret.evaluated /\ ret.response.eligible_schemes = None

\* C11: after a send-message turn whose evaluation found no eligible entry,
\* while some optional attribute is unset and not yet asked, that turn or the
\* turn that follows it returns a prompt (a following turn that returns
\* eligible entries is not held to it).
C11_PromptsAfterNoneFound ==
    [][(/\ NoneFoundTurn
        /\ TurnStep
        /\ ret'.response.status = 200
        /\ ret'.response.eligible_schemes = None
        /\ PendingOptional(sessions'[1]) # {})
          => (ret.response.next_question # None \/ ret'.response.next_question # None)]_vars

\* C12: profile fields are write-once across send-message turns: an attribute
\* that is set when a turn starts has the same value when the turn ends,
\* whether the turn applied AI-extracted data or the rule-based extraction.
C12_ProfileWriteOnce ==
    [][(TurnStep /\ 1 \in DOMAIN sessions /\ 1 \in DOMAIN sessions')
          => \A f \in ProfileFields :
                getattr(sessions[1].user_profile, f) # None
                   => getattr(sessions'[1].user_profile, f)
                        = getattr(sessions[1].user_profile, f)]_vars

\* what the claims call the content of a session
Content(state) ==
    <<state.current_stage, state.asked_questions, state.user_profile,
      state.conversation_history>>

\* C13: an engine operation that changes a session's stage, asked list,
\* profile or history leaves last_activity equal to the current time.
C13_MutationRefreshesLastActivity ==
    [][(/\ 1 \in DOMAIN sessions
        /\ 1 \in DOMAIN sessions'
        /\ Content(sessions'[1]) # Content(sessions[1]))
          => sessions'[1].last_activity = now']_vars

(***************************************************************************)
(* Claims about the session store                                          *)
(***************************************************************************)
\* the session the last call named was stored when the call was made
NamedWasStored == ret.sid \in DOMAIN ret.before

\* the idle time of the named session when the call was made
IdleAtCall == ret.at - ret.before[ret.sid].last_activity

\* C14: get_session on a stored session idle for more than SESSION_TIMEOUT
\* returns None and removes the session, so the active-session count drops
\* by one and the other sessions stay; on a stored session idle for at most
\* the timeout it returns the session and leaves the store alone.
C14_GetSessionExpires ==
    (ret.op = "get_session" /\ NamedWasStored)
        => IF IdleAtCall > SESSION_TIMEOUT
           THEN /\ ret.value = None
                /\ ret.sid \notin DOMAIN sessions
                /\ get_active_sessions_count(sessions)
                      = get_active_sessions_count(ret.before) - 1
                /\ \A k \in DOMAIN ret.before \ {ret.sid} :
                      k \in DOMAIN sessions /\ sessions[k] = ret.before[k]
           ELSE /\ ret.value = Some(ret.before[ret.sid])
                /\ sessions = ret.before

\* get_session found a session idle one minute past the timeout while
\* another session was stored
C14_Witness ==
    /\ ret.op = "get_session"
    /\ NamedWasStored
    /\ IdleAtCall = SESSION_TIMEOUT + 1
    /\ ret.value = None
    /\ Cardinality(DOMAIN ret.before) = 2
    /\ Cardinality(DOMAIN sessions) = 1

\* the sessions of a store idle for more than the timeout at time t
ExpiredAt(store, t) ==
    {k \in DOMAIN store : t - store[k].last_activity > SESSION_TIMEOUT}

\* C15: cleanup_expired_sessions removes exactly the sessions expired when it
\* is called, returns how many it removed, and leaves every other session
\* stored as it was.
C15_CleanupRemovesExactlyExpired ==
    ret.op = "cleanup_expired_sessions"
        => /\ DOMAIN sessions = DOMAIN ret.before \ ExpiredAt(ret.before, ret.at)
           /\ ret.value = Cardinality(ExpiredAt(ret.before, ret.at))
           /\ ret.value = Cardinality(DOMAIN ret.before) - Cardinality(DOMAIN sessions)
           /\ \A k \in DOMAIN sessions : sessions[k] = ret.before[k]

\* the sweep found one expired session and one that was not
C15_Witness ==
    /\ ret.op = "cleanup_expired_sessions"
    /\ Cardinality(DOMAIN ret.before) = 2
    /\ ret.value = 1
    /\ Cardinality(DOMAIN sessions) = 1
    /\ \A k \in DOMAIN sessions : ret.at - sessions[k].last_activity <= SESSION_TIMEOUT

C17_StartCreatesGreetingSession ==
    ret.op = "start_conversation"
        => /\ ret.sid \notin DOMAIN ret.before
           /\ ret.sid \in DOMAIN sessions
           /\ ret.value = Some(sessions[ret.sid])
           /\ sessions[ret.sid].session_id = ret.sid
           /\ sessions[ret.sid].current_stage = "greeting"
           /\ \A f \in ProfileFields : getattr(sessions[ret.sid].user_profile, f) = None
           /\ sessions[ret.sid].asked_questions = <<>>
           /\ Len(sessions[ret.sid].conversation_history) = 1
           /\ sessions[ret.sid].conversation_history[1].role = "assistant"
           /\ sessions[ret.sid].conversation_history[1].content
                 = GREETINGS_get(sessions[ret.sid].language)
           /\ get_session(sessions, ret.sid, ret.at).state = ret.value
           /\ get_active_sessions_count(sessions)
                 = get_active_sessions_count(ret.before) + 1

\* a second session was started while the first was still stored
C17_Witness ==
    /\ ret.op = "start_conversation"
    /\ Cardinality(DOMAIN ret.before) = 1
    /\ Cardinality(DOMAIN sessions) = 2
    /\ ret.at = SESSION_TIMEOUT

\* what end_conversation returned and left, and what get_session and a
\* second end_conversation make of the store it left
EndConversationResult ==
    ret.op = "end_conversation"
        => IF NamedWasStored
           THEN /\ ret.value = TRUE
                /\ DOMAIN sessions = DOMAIN ret.before \ {ret.sid}
                /\ \A k \in DOMAIN sessions : sessions[k] = ret.before[k]
                /\ get_session(sessions, ret.sid, ret.at).state = None
                /\ end_conversation(sessions, ret.sid).value = FALSE
           ELSE /\ ret.value = FALSE
                /\ sessions = ret.before

\* an end_conversation that follows a successful one for the same id
SecondEndReturnsFalse ==
    (/\ ret.op = "end_conversation"
     /\ ret.value = TRUE
     /\ ret'.op = "end_conversation"
     /\ ret'.sid = ret.sid
     /\ ret'.before = sessions
     /\ ret'.at = now)
        => ret'.value = FALSE

\* C18: end_conversation returns True and removes the session when the id is
\* stored, and returns False and changes nothing when it is not; after a True
\* result get_session for the id finds nothing and a second end_conversation
\* for it returns False.
C18_EndConversation == []EndConversationResult /\ [][SecondEndReturnsFalse]_vars

\* one of two stored sessions was ended
C18_Witness ==
    /\ ret.op = "end_conversation"
    /\ ret.value = TRUE
    /\ Cardinality(DOMAIN ret.before) = 2
    /\ Cardinality(DOMAIN sessions) = 1

\* the calls that name one session
OneSessionOps ==
    {"get_next_question", "update_user_profile", "add_user_message",
     "add_assistant_message", "transition_to_eligibility", "transition_to_guidance",
     "end_conversation", "get_session"}

\* C19: a call on one session (get_next_question, update_user_profile, adding
\* a message, a stage transition, end_conversation, get_session with its lazy
\* expiry) leaves every other stored session stored and unchanged: profile,
\* stage, asked list, history and last_activity.
C19_OtherSessionsUntouched ==
    ret.op \in OneSessionOps
        => \A k \in DOMAIN ret.before \ {ret.sid} :
              k \in DOMAIN sessions /\ sessions[k] = ret.before[k]

\* a call changed or removed one of two stored sessions
C19_Witness ==
    /\ ret.op \in OneSessionOps
    /\ Cardinality(DOMAIN ret.before) = 2
    /\ NamedWasStored
    /\ (ret.sid \notin DOMAIN sessions \/ sessions[ret.sid] # ret.before[ret.sid])

(***************************************************************************)
(* Claims about requests in flight                                         *)
(***************************************************************************)
\* every request received has returned
AllAnswered == \A r \in DOMAIN turns : turns[r].pc = "done"

\* the sessions that running the turns rs one after the other, each from
\* "Add user message" to its return, in some order, can leave from state
RECURSIVE sequential_orders(_, _)
sequential_orders(state, rs) ==
    IF rs = {} THEN {state}
    ELSE UNION {sequential_orders(
                    send_message(state, turns[r].message, turns[r].ai,
                                 [i \in 1..3 |-> None], api_schemes, now).state,
                    rs \ {r}) : r \in rs}

\* the attributes whose prompt the turn of request r returned
prompted(r) ==
    IF turns[r].d.next_question = None THEN {}
    ELSE {f \in ProfileFields :
             Val(turns[r].d.next_question) = QUESTIONS_get(f, sessions[1].language)}

Returned == {r \in DOMAIN turns : turns[r].pc = "returned"}

\* what a returned call reports of its removals agrees with what it removed
ReportsItsRemovals(r) ==
    /\ turns[r].op = "end_conversation"
          => turns[r].value = Some(turns[r].removed = {turns[r].sid})
    /\ turns[r].op = "cleanup_expired_sessions"
          => turns[r].value = Some(Cardinality(turns[r].removed))
    /\ turns[r].op = "get_session" /\ turns[r].removed # {}
          => turns[r].value = None

built(schemes) == [schemes |-> schemes, index |-> embeddings(schemes)]

C23_EmptyListRaisesAndKeeps ==
    (kb_ret.op = "index_schemes" /\ kb_ret.args = <<>>)
       => /\ kb_ret.raised = Some("ValueError")
          /\ kbs[kb_ret.instance] = kb_ret.before

\* index_schemes was called with an empty list on an instance built over
\* four entries
C23_Witness ==
    /\ kb_ret.op = "index_schemes"
    /\ kb_ret.args = <<>>
    /\ Len(kb_ret.before.schemes) = 4
    /\ kb_ret.before = built(kb_ret.before.schemes)

\* C24: after an index_schemes call that succeeded, the entry list is the
\* list passed to it and the vector index holds exactly one vector per entry,
\* the vector of that entry, in the same order: nothing of an earlier build
\* is left.
C24_RebuildReplaces ==
    (kb_ret.op = "index_schemes" /\ kb_ret.raised = None)
       => /\ kbs[kb_ret.instance].schemes = kb_ret.args
          /\ Len(kbs[kb_ret.instance].index) = Len(kb_ret.args)
          /\ \A i \in DOMAIN kb_ret.args :
                kbs[kb_ret.instance].index[i]
                   = encode(create_searchable_text(kb_ret.args[i]))

\* an instance built over four entries was rebuilt over one
C24_Witness ==
    /\ kb_ret.op = "index_schemes"
    /\ kb_ret.raised = None
    /\ kb_ret.before = built(kb_ret.before.schemes)
    /\ Len(kb_ret.before.schemes) = 4
    /\ Len(kb_ret.args) = 1

C26_LoadNeverRaises ==
    kb_ret.op = "load_index"
       => /\ kb_ret.raised = None
          /\ kb_ret.value = Some(/\ read_index_raises(disk.faiss) = None
                                 /\ pickle_load_raises(disk.pkl) = None)

\* load_index found the index file but an entry file that is not a pickle
C26_Witness ==
    /\ kb_ret.op = "load_index"
    /\ read_index_raises(disk.faiss) = None
    /\ disk.pkl = Some(Garbage)
    /\ kb_ret.value = Some(FALSE)

(***************************************************************************)
(* Claims about the extraction of a turn                                   *)
(***************************************************************************)
\* what the extractor gave is not used: nothing extracted (the assistant is
\* unavailable, raised, or recognized nothing) or a confidence under 0.6
Degraded(ai) == ai.data = <<>> \/ ai.confidence < AI_CONFIDENCE_THRESHOLD

\* the turn of request r run from the state it found with no assistant for
\* the extraction, the explanations being those the turn got
WithoutExtractor(r) ==
    send_message(Val(turns[r].before), turns[r].message, NoExtraction,
                 [i \in 1..3 |-> IF i \in DOMAIN turns[r].ai_explanation
                                 THEN turns[r].ai_explanation[i] ELSE None],
                 api_schemes, now)

\* C27: a turn whose AI extraction is degraded (assistant unavailable or
\* raising, empty extraction, or confidence under 0.6) applies the rule-based
\* extraction and completes normally: the session it leaves and the response
\* it returns are those of the same turn run without an AI extractor.
C27_DegradedExtractionFallsBack ==
    \A r \in DOMAIN turns :
       (/\ r = Len(turns)
        /\ turns[r].pc = "done"
        /\ turns[r].before # None
        /\ Degraded(turns[r].ai))
          => /\ Val(turns[r].response).status = 200
             /\ sessions[1] = WithoutExtractor(r).state
             /\ Val(turns[r].response) = WithoutExtractor(r).response

\* a turn with the message "25" got the data age 30, state Karnataka at
\* confidence 0.5: the rule-based extraction set the age 25 and no state
C27_Witness ==
    /\ Len(turns) = 1
    /\ turns[1].pc = "done"
    /\ turns[1].message = <<"25">>
    /\ turns[1].ai.confidence = 50
    /\ turns[1].ai.data # <<>>
    /\ sessions[1].user_profile.age = Some(25)
    /\ sessions[1].user_profile.state = None

(***************************************************************************)
(* Claims about the question flow and the stages                           *)
(***************************************************************************)
\* a step that is a call of get_next_question on session 1
QuestionStep ==
    /\ ret'.op = "get_next_question"
    /\ now' = now
    /\ 1 \in DOMAIN sessions

\* C28: get_next_question called in stage greeting moves the session to
\* info_collection; called in stage eligibility or guidance it returns no
\* prompt and leaves the asked list, the profile and the stage unchanged.
C28_StageGating ==
    [][QuestionStep
         => /\ sessions[1].current_stage = "greeting"
                 => sessions'[1].current_stage = "info_collection"
            /\ sessions[1].current_stage \in {"eligibility", "guidance"}
                 => /\ ret'.value = None
                    /\ sessions'[1].asked_questions = sessions[1].asked_questions
                    /\ sessions'[1].user_profile = sessions[1].user_profile
                    /\ sessions'[1].current_stage = sessions[1].current_stage]_vars

\* get_next_question was called on a session in stage eligibility with
\* attributes still unset and unasked
C28_Witness ==
    /\ ret.op = "get_next_question"
    /\ ret.value = None
    /\ sessions[1].current_stage = "eligibility"
    /\ sessions[1].asked_questions = <<>>
    /\ sessions[1].user_profile.gender = None

\* the place of an attribute in the priority order
Priority(f) == CHOOSE i \in DOMAIN question_order : question_order[i] = f

\* the attributes that are unset in the profile and not in the asked list
Askable(state) ==
    {f \in ProfileFields :
        getattr(state.user_profile, f) = None /\ f \notin SeqRange(state.asked_questions)}

\* C29: whatever calls of get_next_question and update_user_profile came
\* before, a call of get_next_question on a session collecting information
\* returns the prompt of the first attribute in priority order that is unset
\* and not yet asked and appends it to the asked list, or returns no prompt
\* when there is none; so it never prompts for an attribute that is set or
\* was asked, the asked list never holds an attribute twice, and it never
\* holds more than the seven attributes: at most seven calls return a prompt.
C29_NextQuestionIsFirstAskable ==
    [][(QuestionStep /\ sessions[1].current_stage \in {"greeting", "info_collection"})
         => /\ IF Askable(sessions[1]) = {}
               THEN /\ ret'.value = None
                    /\ sessions'[1].asked_questions = sessions[1].asked_questions
               ELSE \E f \in Askable(sessions[1]) :
                       /\ \A g \in Askable(sessions[1]) : Priority(f) <= Priority(g)
                       /\ ret'.value = Some(QUESTIONS_get(f, sessions[1].language))
                       /\ sessions'[1].asked_questions
                             = Append(sessions[1].asked_questions, f)
            /\ \A i, j \in DOMAIN sessions'[1].asked_questions :
                  i # j => sessions'[1].asked_questions[i] # sessions'[1].asked_questions[j]
            /\ Len(sessions'[1].asked_questions) <= 7]_vars

\* the age was set before it was asked, six calls returned the prompts of the
\* other six attributes, and the next call returned no prompt
C29_Witness ==
    /\ ret.op = "get_next_question"
    /\ ret.value = None
    /\ sessions[1].current_stage = "info_collection"
    /\ sessions[1].user_profile.age # None
    /\ Len(sessions[1].asked_questions) = 6
    /\ "age" \notin SeqRange(sessions[1].asked_questions)

\* the place of a stage in greeting, info_collection, eligibility, guidance
StageRank(stage) ==
    CASE stage = "greeting" -> 1
      [] stage = "info_collection" -> 2
      [] stage = "eligibility" -> 3
      [] stage = "guidance" -> 4

\* C30: under any sequence of get_next_question, update_user_profile,
\* transition_to_eligibility and transition_to_guidance on a started session,
\* the stage only moves forward in the order greeting, info_collection,
\* eligibility, guidance: no step takes it from a later stage to an earlier.
C30_StageOnlyForward ==
    [][(1 \in DOMAIN sessions /\ 1 \in DOMAIN sessions')
         => StageRank(sessions'[1].current_stage)
               >= StageRank(sessions[1].current_stage)]_vars

(***************************************************************************)
(* Claims about the eligibility engine, continued                          *)
(***************************************************************************)
\* the attribute families of a rule set that carry a constraint, the two age
\* bounds being one family
ConstrainedFamilies(e) == {f \in Families : Constrained(e, f)}

\* the age lies under the minimum and over the maximum at once
OutsideBothBounds(p, e) ==
    /\ p.age # None /\ e.min_age # None /\ e.max_age # None
    /\ Val(p.age) < Val(e.min_age)
    /\ Val(p.age) > Val(e.max_age)

\* C31: for every profile and rule set the number of satisfied descriptions
\* plus the number of unsatisfied descriptions equals the number of attribute
\* families that carry a constraint, the two age bounds counting as one.
C31_CountEqualsFamilies ==
    pc = "checked" =>
        Len(Val(el_result).matching_criteria) + Len(Val(el_result).missing_criteria)
            = Cardinality(ConstrainedFamilies(el_scheme.eligibility))

\* what check_single_scheme does instead: every constrained family gives one
\* description, except that an age under the minimum and over the maximum (a
\* rule set with min_age > max_age) gives two unsatisfied ones; a profile
\* meeting all k > 0 constrained families gets k satisfied descriptions, none
\* unsatisfied and confidence 1.0.
CountPerFamily ==
    pc = "checked" =>
        LET r == Val(el_result)
            k == Cardinality(ConstrainedFamilies(el_scheme.eligibility))
        IN /\ Len(r.matching_criteria) + Len(r.missing_criteria)
                = k + (IF OutsideBothBounds(el_profile, el_scheme.eligibility) THEN 1 ELSE 0)
           /\ r.is_eligible =>
                /\ Len(r.matching_criteria) = k
                /\ r.missing_criteria = <<>>
                /\ k > 0 => r.confidence = <<k, k>>

\* the values an attribute is given when it is collected later: the value
\* it has, or any value, or none yet
Later(held, values) == IF held # None THEN {held} ELSE OptOf(values)

\* the profiles obtained from p by setting attributes that are unset in p
Extensions(p) ==
    {[age |-> a, state |-> s, education_level |-> d, income_range |-> i,
      category |-> c, occupation |-> o, gender |-> g] :
        a \in Later(p.age, {25, 50}), s \in Later(p.state, {"Maharashtra", "Delhi"}),
        d \in Later(p.education_level, {"graduate", "10th_pass"}),
        i \in Later(p.income_range, {"1-3lakh", "above_8lakh"}),
        c \in Later(p.category, {"sc", "general"}),
        o \in Later(p.occupation, {"student", "farmer"}),
        g \in Later(p.gender, {"female", "male"})}

\* q has every attribute that p has, with the same value
Extends(p, q) ==
    \A f \in ProfileFields : getattr(p, f) # None => getattr(q, f) = getattr(p, f)

\* what a result in hand says of every later profile
StableAtResult ==
    /\ (pc = "checked" /\ Val(el_result).is_eligible) =>
           \A q \in Extensions(el_profile) :
              \E r \in {check_single_scheme(q, el_scheme)} :
                 /\ r.is_eligible
                 /\ r.matching_criteria = Val(el_result).matching_criteria
    /\ pc = "determined" =>
           \A q \in {c \in CatalogProfiles : Extends(el_profile, c)} :
              \E later \in {determine_eligibility(q, el_schemes)} :
                 \A i \in DOMAIN Val(el_results) :
                    \E j \in DOMAIN later :
                       /\ later[j].scheme = Val(el_results)[i].scheme
                       /\ later[j].matching_criteria = Val(el_results)[i].matching_criteria

\* C36: if check_single_scheme(P, s) is eligible, then for every profile P'
\* obtained from P by setting attributes that are unset in P,
\* check_single_scheme(P', s) is eligible with the same satisfied list; so
\* every result of determine_eligibility(P, schemes) is a result of
\* determine_eligibility(P', schemes) with the same scheme and the same
\* satisfied list, hence the same rank count. The catalogs drawn constrain
\* age, region and gender, and the later profiles of a catalog run set those.
C36_StableUnderAddedInformation == []StableAtResult

\* an eligible verdict for a profile with unset attributes, against an entry
\* that constrains the attributes the profile has and leaves an unset one
\* unconstrained
C36_Witness ==
    /\ pc = "checked"
    /\ Val(el_result).is_eligible
    /\ Len(Val(el_result).matching_criteria) >= 2
    /\ el_profile.gender = None
    /\ el_profile.occupation = None
    /\ el_scheme.eligibility.gender = None
    /\ Cardinality(Extensions(el_profile)) >= 9

(***************************************************************************)
(* Claims about the knowledge base, continued                              *)
(***************************************************************************)
\* a retrieve_schemes call with filters has returned, made on an instance
\* whose index holds the vectors of its entries
FilteredQuery ==
    /\ kb_ret.op = "retrieve_schemes"
    /\ kb_ret.args.filters # None
    /\ kb_ret.before.schemes # <<>>
    /\ kb_ret.before.index = embeddings(kb_ret.before.schemes)

\* the indexed entries that pass the filters of the call
Passing ==
    {s \in SeqRange(kb_ret.before.schemes) : matches_filters(s, Val(kb_ret.args.filters))}

\* the distance of an entry from the query of the call
DistanceOf(s) == l2(encode(create_searchable_text(s)), encode(kb_ret.args.query))

\* the results are passing entries, each once, nearest first, and no passing
\* entry left out is nearer than one returned
NearestPassingAscending ==
    LET res == Val(kb_ret.value)
    IN /\ \A j \in DOMAIN res :
             /\ res[j].scheme \in Passing
             /\ res[j].similarity = <<1, 1 + DistanceOf(res[j].scheme)>>
       /\ \A i, j \in DOMAIN res :
             i < j => /\ res[i].scheme # res[j].scheme
                      /\ DistanceOf(res[i].scheme) <= DistanceOf(res[j].scheme)
       /\ \A s \in Passing :
             (\A j \in DOMAIN res : res[j].scheme # s)
                => \A j \in DOMAIN res : DistanceOf(res[j].scheme) <= DistanceOf(s)

\* C32: retrieve_schemes with filters returns min(top_k, m) results, m the
\* number of indexed entries that pass the filters, and they are the nearest
\* passing entries in ascending distance order.
C32_ReturnsMinTopKPassing ==
    FilteredQuery =>
        /\ Len(Val(kb_ret.value))
             = (IF kb_ret.args.top_k < Cardinality(Passing)
                THEN kb_ret.args.top_k ELSE Cardinality(Passing))
        /\ NearestPassingAscending

\* C32 as the code has it: the results are at most top_k passing entries,
\* the nearest ones in ascending distance order; there are min(top_k, m) of
\* them whenever the index holds no more than 2 * top_k entries, and fewer
\* only when it holds more, a passing entry left out then having at least
\* 2 * top_k entries no farther from the query than itself.
C32_ReturnsPassingAmongFetched ==
    FilteredQuery =>
        LET res == Val(kb_ret.value)
            top_k == kb_ret.args.top_k
            m == Cardinality(Passing)
            n == Len(kb_ret.before.schemes)
        IN /\ Len(res) <= (IF top_k < m THEN top_k ELSE m)
           /\ NearestPassingAscending
           /\ n <= 2 * top_k => Len(res) = (IF top_k < m THEN top_k ELSE m)
           /\ Len(res) < top_k =>
                \A s \in Passing :
                   (\A j \in DOMAIN res : res[j].scheme # s)
                     => Cardinality({t \in SeqRange(kb_ret.before.schemes) \ {s} :
                                        DistanceOf(t) <= DistanceOf(s)}) >= 2 * top_k

\* two of four entries pass the filter, the two nearest to the query do not,
\* and a query for two results returned the two that pass
C32_Witness ==
    /\ FilteredQuery
    /\ kb_ret.args.top_k = 2
    /\ Len(kb_ret.before.schemes) = 4
    /\ Cardinality(Passing) = 2
    /\ Len(Val(kb_ret.value)) = 2
    /\ \E t \in SeqRange(kb_ret.before.schemes) \ Passing :
          DistanceOf(t) < DistanceOf(Val(kb_ret.value)[1].scheme)

(***************************************************************************)
(* Claims about the conversation engine, continued                         *)
(***************************************************************************)
\* C33: in every reachable session state the profile age is unset or an
\* integer in 0..120; an out-of-range age passed to update_user_profile is
\* rejected and never stored.
C33_AgeInRange ==
    \A sid \in DOMAIN sessions :
        \/ sessions[sid].user_profile.age = None
        \/ Val(sessions[sid].user_profile.age) \in 0..120


\* a session in stage eligibility has age and region
EligibilityHasAgeAndRegion(ss) ==
    \A sid \in DOMAIN ss :
        ss[sid].current_stage = "eligibility"
            => /\ ss[sid].user_profile.age # None
               /\ ss[sid].user_profile.state # None

\* the step is an update_user_profile call that writes None
NullUpdate ==
    /\ ret'.op = "update_user_profile"
    /\ ret'.args[2] = None
    /\ sessions' # sessions

\* C34: through start_conversation, get_next_question, update_user_profile
\* with non-null values, transition_to_eligibility and transition_to_guidance,
\* a session whose stage is eligibility has age and region both set: it holds
\* of the started session and every step other than an update that writes
\* None keeps it.
C34_EligibilityStageHasAgeAndRegion ==
    /\ EligibilityHasAgeAndRegion(sessions)
    /\ [][(EligibilityHasAgeAndRegion(sessions) /\ ~NullUpdate)
            => EligibilityHasAgeAndRegion(sessions')]_vars

\* transition_to_eligibility has moved a session with age and region to
\* eligibility
C34_Witness ==
    /\ ret.op = "transition_to_eligibility"
    /\ sessions[1].current_stage = "eligibility"
    /\ sessions[1].user_profile.age # None
    /\ sessions[1].user_profile.state # None


(***************************************************************************)
(* Claims about the session store, continued                               *)
(***************************************************************************)
\* the ids for which get_session would return a session at time t
Retrievable(store, t) ==
    {k \in DOMAIN store : get_session(store, k, t).state # None}

\* C35: get_active_sessions_count never counts an expired session: in every
\* reachable state it equals the number of stored sessions whose idle time
\* does not exceed the timeout, the ids get_session would return a session for.
C35_CountsOnlyLiveSessions ==
    get_active_sessions_count(sessions) = Cardinality(Retrievable(sessions, now))

\* C35 as the code has it: get_active_sessions_count returns the number of
\* stored sessions, the retrievable ones and the expired ones nothing has
\* removed yet; it is the number of retrievable sessions as cleanup_expired_sessions
\* leaves the store, and one less than before as get_session leaves the
\* store after finding the named session expired.
C35_CountsStoredSessions ==
    /\ ret.op = "get_active_sessions_count"
         => /\ ret.value = Cardinality(Retrievable(ret.before, ret.at))
                             + Cardinality(ExpiredAt(ret.before, ret.at))
            /\ sessions = ret.before
    /\ ret.op = "cleanup_expired_sessions"
         => Cardinality(DOMAIN sessions) = Cardinality(Retrievable(sessions, ret.at))
    /\ (ret.op = "get_session" /\ NamedWasStored /\ IdleAtCall > SESSION_TIMEOUT)
         => Cardinality(DOMAIN sessions) = Cardinality(DOMAIN ret.before) - 1

\* the count was taken with two sessions stored, one of them expired and
\* not yet removed: it is 2, and get_session would return one session
C35_Witness ==
    /\ ret.op = "get_active_sessions_count"
    /\ ret.value = 2
    /\ Cardinality(Retrievable(ret.before, ret.at)) = 1
    /\ Cardinality(ExpiredAt(ret.before, ret.at)) = 1


\* C37: a load_index call that returns False, or an index_schemes call that
\* raises, leaves the entry list and the vector index of the instance as
\* they were before the call, so the number of entries always equals the
\* number of indexed vectors.
C37_FailureLeavesInstance ==
    /\ ((kb_ret.op = "load_index" /\ kb_ret.value = Some(FALSE))
          \/ (kb_ret.op = "index_schemes" /\ kb_ret.raised # None))
         => kbs[kb_ret.instance] = kb_ret.before
    /\ \A i \in Instances : Len(kbs[i].schemes) = Len(kbs[i].index)


(***************************************************************************)
(* Claims about the send-message turn, continued                           *)
(***************************************************************************)
StagesBetweenTurns == {"greeting", "info_collection", "guidance"}

\* C38: at the end of every send-turn the stage of the session is greeting,
\* info_collection or guidance: the stage eligibility is held only inside a
\* turn; no stored session has it, no response carries it, and neither
\* get-session nor the next turn finds it.
C38_EligibilityOnlyInsideTurn ==
    /\ \A sid \in DOMAIN sessions : sessions[sid].current_stage \in StagesBetweenTurns
    /\ (ret.op = "send_message" /\ ret.response # NotFound)
          => /\ ret.response.stage \in StagesBetweenTurns
             /\ Val(ret.before).current_stage \in StagesBetweenTurns
    /\ (ret.op = "get_conversation_state" /\ ret.response # NotFound)
          => ret.response.current_stage \in StagesBetweenTurns

\* a turn completed the information in stage info_collection, went through
\* eligibility, found entries and ended in guidance
C38_Witness ==
    /\ ret.op = "send_message"
    /\ ret.response # NotFound
    /\ ret.evaluated
    /\ Val(ret.before).current_stage = "info_collection"
    /\ ret.response.eligible_schemes # None
    /\ sessions[1].current_stage = "guidance"


\* a send-turn that found its session in guidance left it in guidance, did
\* not call determine_eligibility and returned no entries and no prompt
TurnInGuidanceAnswersOnly ==
    (/\ ret.op = "send_message"
     /\ ret.response # NotFound
     /\ Val(ret.before).current_stage = "guidance")
       => /\ sessions[ret.sid].current_stage = "guidance"
          /\ ret.response.stage = "guidance"
          /\ ~ret.evaluated
          /\ ret.response.eligible_schemes = None
          /\ ret.response.next_question = None

\* C39: once a turn has moved a session to guidance, every later send-turn
\* on that session leaves the stage at guidance, does not invoke the
\* evaluator and returns neither an eligible-scheme list nor a next prompt;
\* the session keeps the stage guidance for as long as it is stored.
C39_GuidanceIsAbsorbing ==
    /\ []TurnInGuidanceAnswersOnly
    /\ [][(/\ 1 \in DOMAIN sessions
           /\ sessions[1].current_stage = "guidance"
           /\ 1 \in DOMAIN sessions')
             => sessions'[1].current_stage = "guidance"]_vars

\* one turn moved the session to guidance and the next turn found it there
C39_Witness ==
    /\ ret.op = "send_message"
    /\ ret.response # NotFound
    /\ Val(ret.before).current_stage = "guidance"
    /\ ret.response.response = [text |-> "anything_else"]
    /\ Len(sessions[1].conversation_history) >= 5

====
